---- MODULE Spec2Model ----
(***************************************************************************)
(* Fuzzwork price pipeline of Market-Tycoon-Farm: the script cache, the    *)
(* script lock, the pending-fetch queue (FUZ:MISSING_QUEUE), the scheduler *)
(* tick fuzzworkCacheRefresh and the read accessor marketStatData, in the  *)
(* three versions the repository holds, and the claim-based postFetch of   *)
(* Main.js.                                                                *)
(*                                                                         *)
(*   V3    src/src/FuzzApiPrice.V3.gs.js lines 1-510   (atomic drain)      *)
(*   Old   src/src/FuzzApiPrice.V3.gs.js lines 511-1178 (tick under lock)  *)
(*   Pulse src/unnamed/part_001                         (pulse chain)      *)
(*   Main  src/src/Main.js                              (postFetch)        *)
(***************************************************************************)
EXTENDS Integers, Sequences, FiniteSets, TLC

\* ------------------------------------------------------------------ bounds
\* item ids are 1..MaxId; the largest one is unknown to the upstream service
MaxId == 3
\* ids per queue task; the source has 700, scaled so that MaxId ids overflow it
MAX_ID_PER_CHUNK == 2

Ids == 1..MaxId
KnownIds == 1..(MaxId - 1)

\* one process per execution: calls of the read accessor, runs of the trigger
Readers == {"r1", "r2"}
Tickers == {"t1", "t2"}
\* callers of postFetch (Main.js)
Callers == {"c1", "c2"}
Procs == Readers \cup Tickers \cup Callers
NoProc == "none"

\* (location_type, location_id) pairs; same id under two scopes
Locations ==
  { [location_type |-> "station", location_id |-> 1],
    [location_type |-> "region", location_id |-> 1] }

Keys == Locations \X Ids

VARIABLES
  lock,      \* LockService.getScriptLock(): the holder, or NoProc
  cache,     \* CacheService data entries: key -> "absent" | "pos" | "null"
  queue,     \* value under MISSING_QUEUE_KEY: [st, tasks]
  pc,        \* position of every process
  ver,       \* the version of the queue pipeline that is deployed
  rd,        \* locals of a reader call: [loc, ids, missing, q]
  tk,        \* locals of a tick: [tasks, final, i, got]
  sent,      \* requests handed to the upstream service, per key
  claim,     \* CacheService claim records (Main.js): key -> "absent" | "stamp"
  pf         \* locals of a postFetch call (Main.js)

vars == <<lock, cache, queue, pc, ver, rd, tk, sent, claim, pf>>

\* ------------------------------------------------------------ pure helpers
ToSet(s) == { s[i] : i \in DOMAIN s }

\* Array.from(new Set(arr)): first occurrences, in order
RECURSIVE Dedupe(_)
Dedupe(s) ==
  IF s = <<>> THEN <<>>
  ELSE LET r == Dedupe(SubSeq(s, 1, Len(s) - 1))
           x == s[Len(s)]
       IN IF x \in ToSet(r) THEN r ELSE Append(r, x)

\* for (i = 0; i < a.length; i += n) a.slice(i, i + n)
RECURSIVE Chunks(_, _)
Chunks(s, n) ==
  IF s = <<>> THEN <<>>
  ELSE IF Len(s) <= n THEN << s >>
  ELSE << SubSeq(s, 1, n) >> \o Chunks(SubSeq(s, n + 1, Len(s)), n)

Task(loc, ids) ==
  [location_id |-> loc.location_id, location_type |-> loc.location_type, ids |-> ids]

LocOf(task) ==
  [location_type |-> task.location_type, location_id |-> task.location_id]

\* every id in one task, whatever n
ChunksOfWhole(ids, n, loc) ==
  IF ids = <<>> THEN <<>> ELSE << Task(loc, ids) >>

\* one task (one request) per slice of n ids
ChunksOf(ids, n, loc) ==
  LET cs == Chunks(ids, n)
  IN [i \in 1..Len(cs) |-> Task(loc, cs[i])]

\* one task per chunk of ids
ChunkTasks(loc, ids) == ChunksOf(ids, MAX_ID_PER_CHUNK, loc)

\* ascending sequence of a set of ids
RECURSIVE SeqOfSet(_)
SeqOfSet(S) ==
  IF S = {} THEN <<>>
  ELSE LET m == CHOOSE x \in S : \A y \in S : x <= y
       IN << m >> \o SeqOfSet(S \ {m})

\* number of occurrences of id in the tasks of loc
RECURSIVE Occurrences(_, _, _)
Occurrences(tasks, loc, id) ==
  IF tasks = <<>> THEN 0
  ELSE LET t == tasks[1]
           here == IF LocOf(t) = loc
                   THEN Cardinality({ i \in DOMAIN t.ids : t.ids[i] = id })
                   ELSE 0
       IN here + Occurrences(Tail(tasks), loc, id)

QueuedIds(tasks, loc) ==
  UNION { ToSet(tasks[i].ids) : i \in { j \in DOMAIN tasks : LocOf(tasks[j]) = loc } }

\* ----------------------------------------------------------- cache store
\* a cached string is "absent" (no entry), "null" (the negative sentinel),
\* "pos" (a serialized row) or "bad" (text that is not JSON)
\* JSON.parse of a cached string that is present
JsonParse(s) ==
  IF s = "bad" THEN "throws" ELSE IF s = "null" THEN "null" ELSE "row"

\* a cache read that hands on whatever JSON.parse gave
HaveUnguarded(s) ==
  IF s = "null" THEN "null"
  ELSE IF s # "absent" THEN JsonParse(s)
  ELSE "missing"

\* _getCachedFuz for one cached string: the entry of `have`, or "missing"
Have(s) ==
  IF s = "null" THEN "null"
  ELSE IF s # "absent"
       THEN IF JsonParse(s) = "throws" THEN "missing" ELSE JsonParse(s)
  ELSE "missing"

\* a cache read that takes the negative sentinel for a miss
GetCachedMissingNoNegative(c, loc, ids) ==
  SelectSeq(ids, LAMBDA id : Have(c[<<loc, id>>]) \in {"missing", "null"})

\* _getCachedFuz: ids with no usable entry
GetCachedMissing(c, loc, ids) ==
  SelectSeq(ids, LAMBDA id : Have(c[<<loc, id>>]) = "missing")

\* ------------------------------------------------- read accessor output
\* null in flatIds; as a cell, a value whose Number() is not finite
NoId == -1

\* Number(val) of an empty cell, and of a cell holding 0
ZeroCell == 0

\* _processInputIds (V3): one cell to its entry of flatIds
FlatIdV3(n) == IF n # NoId /\ n > 0 THEN n ELSE NoId

\* _processInputIds (Old): one cell to its entry of flatIds
FlatIdOld(n) == IF n # NoId THEN n ELSE NoId

\* _processInputIds: flatIds and validIds of a flat range of cells
ProcessInputIds(cells, v) ==
  LET flatIds == [i \in DOMAIN cells |->
                    IF v = "V3" THEN FlatIdV3(cells[i]) ELSE FlatIdOld(cells[i])]
  IN [flatIds |-> flatIds,
      validIds |-> Dedupe(SelectSeq(flatIds, LAMBDA id : id # NoId))]

\* cache.getAll for one id: an id outside the modelled keys has no entry
CacheAt(c, loc, id) == IF <<loc, id>> \in Keys THEN c[<<loc, id>>] ELSE "absent"

\* known ids whose upstream row has no finite value in the selected field
ThinIds == {1}

\* pick(row) ?? "": the number of the selected field, or blank
Pick(id) == IF id \in ThinIds THEN "blank" ELSE "number"

\* one cell of the result of marketStatData (V3), from the entries read
CellV3(c, loc, id) ==
  IF id = NoId THEN "blank"
  ELSE IF Have(c[<<loc, id>>]) = "missing" THEN "pending"
  ELSE IF Have(c[<<loc, id>>]) = "null" THEN "blank"
  ELSE Pick(id)

\* one cell of the result of marketStatData (Old): `if (!data)` takes a missing
\* id and a parsed null alike
CellOld(c, loc, id) ==
  IF id = NoId THEN "blank"
  ELSE IF Have(CacheAt(c, loc, id)) \in {"missing", "null"} THEN "pending"
  ELSE Pick(id)

\* the flat result of marketStatData (Old), aligned with flatIds
MarketStatDataOld(c, loc, flatIds) ==
  [i \in DOMAIN flatIds |-> CellOld(c, loc, flatIds[i])]

\* the flat result of marketStatData (V3), aligned with flatIds
MarketStatDataV3(c, loc, flatIds) ==
  [i \in DOMAIN flatIds |-> CellV3(c, loc, flatIds[i])]

AbsentQueue == [st |-> "absent", tasks |-> <<>>]
JsonQueue(tasks) == [st |-> "json", tasks |-> tasks]

\* ----------------------------------------------------- V3: enqueue (pure)
\* _queueMissingItems body: ids not yet queued for the location, in chunks
QueueMissingItemsV3(q, missing_ids, loc) ==
  LET uniqueMissingIds == Dedupe(missing_ids)
      existingIds == QueuedIds(q, loc)
      newIdsToAdd == SelectSeq(uniqueMissingIds, LAMBDA id : id \notin existingIds)
  IN q \o ChunkTasks(loc, newIdsToAdd)

\* ------------------------------------------------- V3: consolidation (pure)
RECURSIVE LocOrder(_)
LocOrder(tasks) ==
  IF tasks = <<>> THEN <<>>
  ELSE LET r == LocOrder(SubSeq(tasks, 1, Len(tasks) - 1))
           l == LocOf(tasks[Len(tasks)])
       IN IF l \in ToSet(r) THEN r ELSE Append(r, l)

RECURSIVE IdsOfLoc(_, _)
IdsOfLoc(tasks, loc) ==
  IF tasks = <<>> THEN <<>>
  ELSE (IF LocOf(tasks[1]) = loc THEN tasks[1].ids ELSE <<>>)
       \o IdsOfLoc(Tail(tasks), loc)

RECURSIVE ConsolidateFrom(_, _)
ConsolidateFrom(locs, tasks) ==
  IF locs = <<>> THEN <<>>
  ELSE ChunkTasks(locs[1], Dedupe(IdsOfLoc(tasks, locs[1])))
       \o ConsolidateFrom(Tail(locs), tasks)

\* the drained tasks handed on as they are
ConsolidateNone(tasksToProcess) == tasksToProcess

Consolidate(tasksToProcess) == ConsolidateFrom(LocOrder(tasksToProcess), tasksToProcess)

\* ------------------------------------------------------- upstream service
\* what one response of UrlFetchApp.fetchAll can be
Responses == {"ok", "non200", "badjson", "empty"}

\* ids the service answers for a request with these ids
Received(ids) == { id \in ToSet(ids) : id \in KnownIds }

CountSent(s, tasks) ==
  [k \in Keys |-> s[k] + Occurrences(tasks, k[1], k[2])]

\* ------------------------------------------------ V3: fuzzyFetchAll (pure)
\* the cache after the loop body of fuzzyFetchAll for one response
FetchWriteV3(c, task, resp) ==
  LET loc == LocOf(task)
      requestedIds == ToSet(task.ids)
      receivedIds == IF resp = "ok" THEN Received(task.ids) ELSE {}
      toPut == IF resp \in {"ok", "empty"} THEN receivedIds ELSE {}
      toPutNegative == IF resp \in {"ok", "empty"}
                       THEN requestedIds \ receivedIds
                       ELSE requestedIds
  IN [k \in Keys |->
        IF k[1] = loc /\ k[2] \in toPutNegative THEN "null"
        ELSE IF k[1] = loc /\ k[2] \in toPut THEN "pos"
        ELSE c[k]]

\* ------------------------------------------------------------------- Init
NoCall ==
  [loc |-> CHOOSE l \in Locations : TRUE, ids |-> <<>>, missing |-> <<>>, q |-> <<>>]
NoTick == [tasks |-> <<>>, final |-> <<>>, i |-> 0, got |-> {}]

NoFetch ==
  [loc |-> CHOOSE l \in Locations : TRUE, misses |-> <<>>, claimables |-> <<>>,
   lk |-> "none", t |-> 0, b |-> 0, tr |-> 0,
   fetched |-> [id \in Ids |-> "none"], pos |-> {}, neg |-> {}]

Versions == {"V3", "Old", "Pulse"}

Init ==
  /\ lock = NoProc
  /\ cache = [k \in Keys |-> "absent"]
  /\ queue = AbsentQueue
  /\ pc = [p \in Procs |-> "idle"]
  /\ ver \in Versions
  /\ rd = [p \in Readers |-> NoCall]
  /\ tk = [p \in Tickers |-> NoTick]
  /\ sent = [k \in Keys |-> 0]
  /\ claim = [k \in Keys |-> "absent"]
  /\ pf = [p \in Callers |-> NoFetch]

\* id ranges a caller can ask for: 1..b and a..MaxId
Inputs == { SeqOfSet(1..b) : b \in Ids } \cup { SeqOfSet(a..MaxId) : a \in Ids }

\* -------------------------------------------------- read accessor (common)
\* marketStatData up to the call of _queueMissingItems
ReadCall(p, ids, loc) ==
  /\ pc[p] = "idle"
  /\ LET missing == GetCachedMissing(cache, loc, ids)
     IN /\ rd' = [rd EXCEPT ![p] =
                    [loc |-> loc, ids |-> ids, missing |-> missing, q |-> <<>>]]
        /\ pc' = [pc EXCEPT ![p] = IF missing = <<>> THEN "done" ELSE "enq_wait"]
  /\ UNCHANGED <<lock, cache, queue, ver, tk, sent, claim, pf>>

Read(p) ==
  \E ids \in Inputs, loc \in Locations : ReadCall(p, ids, loc)

\* withScriptLock: lock.waitLock(ms) returns
WaitLock(p, from, to) ==
  /\ pc[p] = from
  /\ lock = NoProc
  /\ lock' = p
  /\ pc' = [pc EXCEPT ![p] = to]

\* withScriptLock: lock.waitLock(ms) throws after ms
WaitLockTimeout(p, from) ==
  /\ pc[p] = from
  /\ lock \notin {NoProc, p}
  /\ pc' = [pc EXCEPT ![p] = "threw"]

\* _queueMissingItems of V3 and Old: entering withScriptLock
EnqueueLock(p) ==
  /\ ver \in {"V3", "Old"}
  /\ WaitLock(p, "enq_wait", "enq_cs")
  /\ UNCHANGED <<cache, queue, ver, rd, tk, sent, claim, pf>>

EnqueueTimeout(p) ==
  /\ ver \in {"V3", "Old"}
  /\ WaitLockTimeout(p, "enq_wait")
  /\ UNCHANGED <<lock, cache, queue, ver, rd, tk, sent, claim, pf>>

\* fuzzworkCacheRefresh of V3 and Old starts by entering withScriptLock;
\* TickLock and TickTimeout are the waitLock of all three versions
TickStart(p) ==
  /\ ver \in {"V3", "Old"}
  /\ pc[p] = "idle"
  /\ pc' = [pc EXCEPT ![p] = "tick_wait"]
  /\ UNCHANGED <<lock, cache, queue, ver, rd, tk, sent, claim, pf>>

TickLock(p) ==
  /\ WaitLock(p, "tick_wait", "tick_cs")
  /\ UNCHANGED <<cache, queue, ver, rd, tk, sent, claim, pf>>

TickTimeout(p) ==
  /\ WaitLockTimeout(p, "tick_wait")
  /\ UNCHANGED <<lock, cache, queue, ver, rd, tk, sent, claim, pf>>

\* ------------------------------------------------------------- V3 actions
\* the locked function of _queueMissingItems, and the release
V3_Enqueue(p) ==
  /\ ver = "V3"
  /\ pc[p] = "enq_cs"
  /\ lock = p
  /\ IF queue.st = "corrupt"
     THEN /\ pc' = [pc EXCEPT ![p] = "threw"]
          /\ UNCHANGED queue
     ELSE /\ queue' = JsonQueue(QueueMissingItemsV3(queue.tasks, rd[p].missing, rd[p].loc))
          /\ pc' = [pc EXCEPT ![p] = "done"]
  /\ lock' = NoProc
  /\ UNCHANGED <<cache, ver, rd, tk, sent, claim, pf>>

\* a drain that leaves a queue value it cannot parse where it is
V3_DrainKeeps(p) ==
  /\ ver = "V3"
  /\ pc[p] = "tick_cs"
  /\ lock = p
  /\ lock' = NoProc
  /\ LET tasksToProcess == IF queue.st = "json" THEN queue.tasks ELSE <<>>
         finalTasks == Consolidate(tasksToProcess)
     IN /\ queue' = IF Len(tasksToProcess) > 0
                    THEN AbsentQueue ELSE queue
        /\ IF tasksToProcess = <<>>
           THEN /\ pc' = [pc EXCEPT ![p] = "done"]
                /\ UNCHANGED <<tk, sent>>
           ELSE /\ pc' = [pc EXCEPT ![p] = "fetch"]
                /\ tk' = [tk EXCEPT ![p] =
                       [tasks |-> tasksToProcess, final |-> finalTasks, i |-> 1, got |-> {}]]
                /\ sent' = CountSent(sent, finalTasks)
  /\ UNCHANGED <<cache, ver, rd, claim, pf>>

\* the locked drain, the consolidation and the start of fuzzyFetchAll
V3_Drain(p) ==
  /\ ver = "V3"
  /\ pc[p] = "tick_cs"
  /\ lock = p
  /\ lock' = NoProc
  /\ LET tasksToProcess == IF queue.st = "json" THEN queue.tasks ELSE <<>>
         finalTasks == Consolidate(tasksToProcess)
     IN /\ queue' = IF queue.st = "corrupt" \/ Len(tasksToProcess) > 0
                    THEN AbsentQueue ELSE queue
        /\ IF tasksToProcess = <<>>
           THEN /\ pc' = [pc EXCEPT ![p] = "done"]
                /\ UNCHANGED <<tk, sent>>
           ELSE /\ pc' = [pc EXCEPT ![p] = "fetch"]
                /\ tk' = [tk EXCEPT ![p] =
                       [tasks |-> tasksToProcess, final |-> finalTasks, i |-> 1, got |-> {}]]
                /\ sent' = CountSent(sent, finalTasks)
  /\ UNCHANGED <<cache, ver, rd, claim, pf>>

\* withRetries(fetchAll) rethrows: the catch block of fuzzworkCacheRefresh
V3_FetchThrows(p) ==
  /\ ver = "V3"
  /\ pc[p] = "fetch"
  /\ pc' = [pc EXCEPT ![p] = "requeue_wait"]
  /\ UNCHANGED <<lock, cache, queue, ver, rd, tk, sent, claim, pf>>

\* fetchAll returns the responses
V3_FetchReturns(p) ==
  /\ ver = "V3"
  /\ pc[p] = "fetch"
  /\ pc' = [pc EXCEPT ![p] = "process"]
  /\ UNCHANGED <<lock, cache, queue, ver, rd, tk, sent, claim, pf>>

\* one turn of the response loop of fuzzyFetchAll
V3_Process(p, resp) ==
  /\ ver = "V3"
  /\ pc[p] = "process"
  /\ LET i == tk[p].i
         task == tk[p].final[i]
     IN /\ cache' = FetchWriteV3(cache, task, resp)
        /\ tk' = [tk EXCEPT ![p].i = i + 1]
        /\ pc' = [pc EXCEPT ![p] = IF i = Len(tk[p].final) THEN "done" ELSE "process"]
  /\ UNCHANGED <<lock, queue, ver, rd, sent, claim, pf>>

V3_Respond(p) ==
  \E resp \in Responses : V3_Process(p, resp)

V3_RequeueLock(p) ==
  /\ WaitLock(p, "requeue_wait", "requeue_cs")
  /\ UNCHANGED <<cache, queue, ver, rd, tk, sent, claim, pf>>

V3_RequeueTimeout(p) ==
  /\ WaitLockTimeout(p, "requeue_wait")
  /\ UNCHANGED <<lock, cache, queue, ver, rd, tk, sent, claim, pf>>

\* a write-back of the failed tasks alone
RequeueV3Overwrite(currentQueue, finalTasks) == finalTasks

\* currentQueue.concat(finalTasks), written back under the lock
RequeueV3(currentQueue, finalTasks) == currentQueue \o finalTasks

V3_Requeue(p) ==
  /\ pc[p] = "requeue_cs"
  /\ lock = p
  /\ lock' = NoProc
  /\ IF queue.st = "corrupt"
     THEN /\ pc' = [pc EXCEPT ![p] = "threw"]
          /\ UNCHANGED queue
     ELSE /\ queue' = JsonQueue(RequeueV3(queue.tasks, tk[p].final))
          /\ pc' = [pc EXCEPT ![p] = "done"]
  /\ UNCHANGED <<cache, ver, rd, tk, sent, claim, pf>>

\* ------------------------------------------------------------ Old (pure)
\* index of the first task of the location (Array.prototype.find), 0 if none
FindTask(q, loc) ==
  LET hits == { i \in DOMAIN q : LocOf(q[i]) = loc }
  IN IF hits = {} THEN 0 ELSE CHOOSE i \in hits : \A j \in hits : i <= j

\* _queueMissingItems body of Old: merge into the first task of the location,
\* or push one new task; put says whether the queue is written back
QueueMissingItemsOld(q, missing_ids, loc) ==
  LET uniqueMissingIds == Dedupe(missing_ids)
      e == FindTask(q, loc)
      fresh == SelectSeq(uniqueMissingIds, LAMBDA id : id \notin ToSet(q[e].ids))
  IN IF e = 0
     THEN [put |-> TRUE, tasks |-> Append(q, Task(loc, uniqueMissingIds))]
     ELSE IF fresh = <<>>
     THEN [put |-> FALSE, tasks |-> q]
     ELSE [put |-> TRUE, tasks |-> [q EXCEPT ![e].ids = @ \o fresh]]

\* ids per POST of _performFetchAndCache; 700 in the source, like the chunk size
MAX_IDS_PER_POST == MAX_ID_PER_CHUNK

\* the cache after _performFetchAndCache wrote the rows it fetched
FetchWriteOld(c, loc, fetched) ==
  [k \in Keys |-> IF k[1] = loc /\ k[2] \in fetched THEN "pos" ELSE c[k]]

\* ------------------------------------------------------------ Old actions
Old_Enqueue(p) ==
  /\ ver = "Old"
  /\ pc[p] = "enq_cs"
  /\ lock = p
  /\ IF queue.st = "corrupt"
     THEN /\ pc' = [pc EXCEPT ![p] = "threw"]
          /\ UNCHANGED queue
     ELSE LET r == QueueMissingItemsOld(queue.tasks, rd[p].missing, rd[p].loc)
          IN /\ queue' = IF r.put THEN JsonQueue(r.tasks) ELSE queue
             /\ pc' = [pc EXCEPT ![p] = "done"]
  /\ lock' = NoProc
  /\ UNCHANGED <<cache, ver, rd, tk, sent, claim, pf>>

\* the tick up to the first request of _performFetchAndCache; the lock stays held
Old_Begin(p) ==
  /\ ver = "Old"
  /\ pc[p] = "tick_cs"
  /\ lock = p
  /\ IF queue.st = "absent"
     THEN /\ pc' = [pc EXCEPT ![p] = "done"]
          /\ lock' = NoProc
          /\ UNCHANGED <<queue, tk, sent>>
     ELSE IF queue.st = "corrupt"
     THEN /\ pc' = [pc EXCEPT ![p] = "threw"]
          /\ lock' = NoProc
          /\ UNCHANGED <<queue, tk, sent>>
     ELSE IF queue.tasks = <<>>
     THEN /\ pc' = [pc EXCEPT ![p] = "done"]
          /\ lock' = NoProc
          /\ queue' = AbsentQueue
          /\ UNCHANGED <<tk, sent>>
     ELSE LET task == Head(queue.tasks)
              slices == ChunksOf(Dedupe(task.ids), MAX_IDS_PER_POST, LocOf(task))
          IN /\ pc' = [pc EXCEPT ![p] = "fetch"]
             /\ tk' = [tk EXCEPT ![p] =
                    [tasks |-> Tail(queue.tasks), final |-> slices, i |-> 1, got |-> {}]]
             /\ sent' = CountSent(sent, << slices[1] >>)
             /\ UNCHANGED <<lock, queue>>
  /\ UNCHANGED <<cache, ver, rd, claim, pf>>

\* one response of _performFetchAndCache; after the last one the rows are
\* cached, the rest of the queue is saved and the lock is released
Old_Response(p, resp) ==
  /\ ver = "Old"
  /\ pc[p] = "fetch"
  /\ LET i == tk[p].i
         slice == tk[p].final[i]
         fetched == tk[p].got \cup (IF resp = "ok" THEN Received(slice.ids) ELSE {})
     IN IF i < Len(tk[p].final)
        THEN /\ tk' = [tk EXCEPT ![p].i = i + 1, ![p].got = fetched]
             /\ sent' = CountSent(sent, << tk[p].final[i + 1] >>)
             /\ UNCHANGED <<lock, cache, queue, pc>>
        ELSE /\ tk' = [tk EXCEPT ![p].i = i + 1, ![p].got = fetched]
             /\ cache' = FetchWriteOld(cache, LocOf(slice), fetched)
             /\ queue' = IF tk[p].tasks = <<>> THEN AbsentQueue ELSE JsonQueue(tk[p].tasks)
             /\ lock' = NoProc
             /\ pc' = [pc EXCEPT ![p] = "done"]
             /\ UNCHANGED sent
  /\ UNCHANGED <<ver, rd, claim, pf>>

Old_Respond(p) ==
  \E resp \in Responses : Old_Response(p, resp)

\* ----------------------------------------------------------- Pulse (pure)
\* _queueMissingItems body of Pulse. The re-chunk branch reads the undeclared
\* name `task` (task.location_id) and throws a ReferenceError before the put.
QueueMissingItemsPulse(q, missing_ids, loc) ==
  LET uniqueMissingIds == Dedupe(missing_ids)
      e == FindTask(q, loc)
      newIdsToAdd == SelectSeq(uniqueMissingIds, LAMBDA id : id \notin ToSet(q[e].ids))
      consolidated == e # 0 /\ newIdsToAdd # <<>>
  IN IF consolidated
     THEN IF Len(q[e].ids \o newIdsToAdd) > MAX_ID_PER_CHUNK
          THEN [threw |-> TRUE, tasks |-> q]
          ELSE [threw |-> FALSE, tasks |-> [q EXCEPT ![e].ids = @ \o newIdsToAdd]]
     ELSE [threw |-> FALSE, tasks |-> q \o ChunkTasks(loc, uniqueMissingIds)]

\* the cache after the response loop of fuzzyFetchAll (Pulse) for one response
FetchWritePulse(c, task, resp) ==
  LET toPut == IF resp = "ok" THEN Received(task.ids) ELSE {}
  IN [k \in Keys |-> IF k[1] = LocOf(task) /\ k[2] \in toPut THEN "pos" ELSE c[k]]

\* ---------------------------------------------------------- Pulse actions
\* _queueMissingItems without the lock: the read of the queue
P_EnqueueRead(p) ==
  /\ ver = "Pulse"
  /\ pc[p] = "enq_wait"
  /\ IF queue.st = "corrupt"
     THEN /\ pc' = [pc EXCEPT ![p] = "threw"]
          /\ UNCHANGED rd
     ELSE /\ pc' = [pc EXCEPT ![p] = "enq_write"]
          /\ rd' = [rd EXCEPT ![p].q = queue.tasks]
  /\ UNCHANGED <<lock, cache, queue, ver, tk, sent, claim, pf>>

\* _queueMissingItems without the lock: the write of the merged queue
P_EnqueueWrite(p) ==
  /\ ver = "Pulse"
  /\ pc[p] = "enq_write"
  /\ LET r == QueueMissingItemsPulse(rd[p].q, rd[p].missing, rd[p].loc)
     IN IF r.threw
        THEN /\ pc' = [pc EXCEPT ![p] = "threw"]
             /\ UNCHANGED queue
        ELSE /\ pc' = [pc EXCEPT ![p] = "done"]
             /\ queue' = JsonQueue(r.tasks)
  /\ UNCHANGED <<lock, cache, ver, rd, tk, sent, claim, pf>>

\* a tick that requests an id although it found the queue empty
P_TickReadRequests(p) ==
  /\ ver = "Pulse"
  /\ pc[p] = "idle"
  /\ IF queue.st = "json" /\ queue.tasks # <<>>
     THEN /\ pc' = [pc EXCEPT ![p] = "tick_wait"]
          /\ tk' = [tk EXCEPT ![p].tasks = queue.tasks]
          /\ UNCHANGED <<queue, sent>>
     ELSE /\ pc' = [pc EXCEPT ![p] = "done"]
          /\ queue' = AbsentQueue
          /\ sent' = [k \in Keys |-> sent[k] + 1]
          /\ UNCHANGED tk
  /\ UNCHANGED <<lock, cache, ver, rd, claim, pf>>

\* fuzzworkCacheRefresh (Pulse) reads and parses the queue before the lock
P_TickRead(p) ==
  /\ ver = "Pulse"
  /\ pc[p] = "idle"
  /\ IF queue.st = "json" /\ queue.tasks # <<>>
     THEN /\ pc' = [pc EXCEPT ![p] = "tick_wait"]
          /\ tk' = [tk EXCEPT ![p].tasks = queue.tasks]
          /\ UNCHANGED queue
     ELSE /\ pc' = [pc EXCEPT ![p] = "done"]
          /\ queue' = AbsentQueue
          /\ UNCHANGED tk
  /\ UNCHANGED <<lock, cache, ver, rd, sent, claim, pf>>

\* under the lock: shift one task off the copy and save the rest of the copy
P_Shift(p) ==
  /\ ver = "Pulse"
  /\ pc[p] = "tick_cs"
  /\ lock = p
  /\ lock' = NoProc
  /\ LET task == Head(tk[p].tasks)
         rest == Tail(tk[p].tasks)
     IN /\ queue' = JsonQueue(rest)
        /\ tk' = [tk EXCEPT ![p] = [tasks |-> rest, final |-> << task >>, i |-> 1, got |-> {}]]
        /\ sent' = CountSent(sent, << task >>)
  /\ pc' = [pc EXCEPT ![p] = "fetch"]
  /\ UNCHANGED <<cache, ver, rd, claim, pf>>

\* withRetries(fetchAll) rethrows; nothing in the tick catches it
P_FetchThrows(p) ==
  /\ ver = "Pulse"
  /\ pc[p] = "fetch"
  /\ pc' = [pc EXCEPT ![p] = "threw"]
  /\ UNCHANGED <<lock, cache, queue, ver, rd, tk, sent, claim, pf>>

P_Response(p, resp) ==
  /\ ver = "Pulse"
  /\ pc[p] = "fetch"
  /\ cache' = FetchWritePulse(cache, tk[p].final[1], resp)
  /\ tk' = [tk EXCEPT ![p].i = 2]
  /\ pc' = [pc EXCEPT ![p] = "done"]
  /\ UNCHANGED <<lock, queue, ver, rd, sent, claim, pf>>

P_Respond(p) ==
  \E resp \in Responses : P_Response(p, resp)

\* ------------------------------------------------------------------- Next
Next ==
  \/ \E p \in Readers : Read(p)
  \/ \E p \in Readers : EnqueueLock(p)
  \/ \E p \in Readers : EnqueueTimeout(p)
  \/ \E p \in Tickers : TickStart(p)
  \/ \E p \in Tickers : TickLock(p)
  \/ \E p \in Tickers : TickTimeout(p)
  \/ \E p \in Readers : V3_Enqueue(p)
  \/ \E p \in Tickers : V3_Drain(p)
  \/ \E p \in Tickers : V3_FetchThrows(p)
  \/ \E p \in Tickers : V3_FetchReturns(p)
  \/ \E p \in Tickers : V3_Respond(p)
  \/ \E p \in Tickers : V3_RequeueLock(p)
  \/ \E p \in Tickers : V3_RequeueTimeout(p)
  \/ \E p \in Tickers : V3_Requeue(p)
  \/ \E p \in Readers : Old_Enqueue(p)
  \/ \E p \in Tickers : Old_Begin(p)
  \/ \E p \in Tickers : Old_Respond(p)
  \/ \E p \in Readers : P_EnqueueRead(p)
  \/ \E p \in Readers : P_EnqueueWrite(p)
  \/ \E p \in Tickers : P_TickRead(p)
  \/ \E p \in Tickers : P_Shift(p)
  \/ \E p \in Tickers : P_FetchThrows(p)
  \/ \E p \in Tickers : P_Respond(p)

Spec == Init /\ [][Next]_vars

\* ======================================================================
\* Main.js: claim-based postFetch
\* ======================================================================
\* ids per request of fetchFuzzAggsInBatches_ (700 in the source)
FETCH_BATCH == MAX_ID_PER_CHUNK
WAIT_FOR_CLAIM_MS == 6000
WAIT_STEP_MS == 500

\* the three transports tried for each batch, in order
Transports == << "json", "form", "get" >>
\* what one transport can end with: a parsed 200, a non-200, an empty 200,
\* a 200 that is not JSON, or an exception out of withRetries
TransportResults == {"ok", "non200", "empty", "badjson", "throw"}

\* _parseCached_ on a data entry
ParseCached(v) ==
  IF v = "absent" THEN "undefined"
  ELSE IF v = "null" THEN "null"
  ELSE IF JsonParse(v) = "throws" THEN "undefined"
  ELSE "row"

\* sanitizeAgg_: anything that is not a usable row becomes null
SanitizeAgg(x) == IF x = "row" THEN "row" ELSE "null"

\* out[id] after a successful batch: the row, or null when the id is not
\* in the response object
UpstreamRow(id) == IF id \in KnownIds THEN "row" ELSE "null"

\* a claim check that looks at the data entries only
ClaimCheckDataOnly(c, cl, loc, misses) ==
  SelectSeq(misses, LAMBDA id : c[<<loc, id>>] = "absent")

\* a claim check that looks at the claim records only
ClaimCheckClaimOnly(c, cl, loc, misses) ==
  SelectSeq(misses, LAMBDA id : cl[<<loc, id>>] = "absent")

\* the claim check in postFetch: misses with no data entry and no claim
ClaimCheck(c, cl, loc, misses) ==
  SelectSeq(misses, LAMBDA id :
              c[<<loc, id>>] = "absent" /\ cl[<<loc, id>>] = "absent")

\* tryLock(ms) returned true
DocLock(p, from, to) ==
  /\ pc[p] = from
  /\ lock = NoProc
  /\ lock' = p
  /\ pc' = [pc EXCEPT ![p] = to]

\* tryLock(ms) returned false: fn() runs without the lock
DocLockFailOpen(p, from, to) ==
  /\ pc[p] = from
  /\ lock \notin {NoProc, p}
  /\ lock' = lock
  /\ pc' = [pc EXCEPT ![p] = to]

\* finally { lock.releaseLock() } of the branch that took the lock
DocRelease(p) == IF lock = p THEN NoProc ELSE lock

\* postFetch up to the claim step: dedupe, read the cache, collect misses
PF_CallWith(p, ids, loc) ==
  /\ pc[p] = "idle"
  /\ LET misses == GetCachedMissing(cache, loc, Dedupe(ids))
     IN /\ pf' = [pf EXCEPT ![p] = [NoFetch EXCEPT !.loc = loc, !.misses = misses]]
        /\ pc' = [pc EXCEPT ![p] = IF misses = <<>> THEN "done" ELSE "claim_wait"]
  /\ UNCHANGED <<lock, cache, queue, ver, rd, tk, sent, claim>>

PF_Call(p) ==
  \E ids \in Inputs, loc \in Locations : PF_CallWith(p, ids, loc)

PF_ClaimLock(p) ==
  /\ DocLock(p, "claim_wait", "claim_check")
  /\ pf' = [pf EXCEPT ![p].lk = "held"]
  /\ UNCHANGED <<cache, queue, ver, rd, tk, sent, claim>>

PF_ClaimFailOpen(p) ==
  /\ DocLockFailOpen(p, "claim_wait", "claim_check")
  /\ pf' = [pf EXCEPT ![p].lk = "open"]
  /\ UNCHANGED <<cache, queue, ver, rd, tk, sent, claim>>

\* the two getAll calls and the loop that fills claimables
PF_ClaimCheck(p) ==
  /\ pc[p] = "claim_check"
  /\ pf' = [pf EXCEPT ![p].claimables =
              ClaimCheck(cache, claim, pf[p].loc, pf[p].misses)]
  /\ pc' = [pc EXCEPT ![p] = "claim_put"]
  /\ UNCHANGED <<lock, cache, queue, ver, rd, tk, sent, claim>>

\* cache.putAll(toPut, CLAIM_TTL_S), the end of the locked section, and the
\* branch on fetchList.length
PF_ClaimPut(p) ==
  /\ pc[p] = "claim_put"
  /\ LET mine == { <<pf[p].loc, id>> : id \in ToSet(pf[p].claimables) }
     IN /\ claim' = [k \in Keys |-> IF k \in mine THEN "stamp" ELSE claim[k]]
        /\ sent' = [k \in Keys |-> IF k \in mine THEN sent[k] + 1 ELSE sent[k]]
        /\ IF mine = {}
           THEN /\ pc' = [pc EXCEPT ![p] = "wait"]
                /\ pf' = pf
           ELSE /\ pc' = [pc EXCEPT ![p] = "fetch"]
                /\ pf' = [pf EXCEPT ![p].b = 1, ![p].tr = 1]
  /\ lock' = DocRelease(p)
  /\ UNCHANGED <<cache, queue, ver, rd, tk>>

\* a wait loop with one more pass
PollTriesOneMore == WAIT_FOR_CLAIM_MS \div WAIT_STEP_MS + 1

\* non-claimer: one pass of the wait loop (sleep, recheck, break when ready)
PollTries == WAIT_FOR_CLAIM_MS \div WAIT_STEP_MS

PF_Poll(p) ==
  /\ pc[p] = "wait"
  /\ LET ready == \A id \in ToSet(pf[p].misses) : cache[<<pf[p].loc, id>>] # "absent"
         t == pf[p].t + 1
     IN /\ pf' = [pf EXCEPT ![p].t = t]
        /\ pc' = [pc EXCEPT ![p] = IF ready \/ t >= PollTries THEN "collect" ELSE "wait"]
  /\ UNCHANGED <<lock, cache, queue, ver, rd, tk, sent, claim>>

\* fetchFuzzAggsInBatches_: the batches of the fetch list
Batches(p) == Chunks(pf[p].claimables, FETCH_BATCH)

\* fetchFuzzAggsInBatches_: one transport of the current batch ends with res
PF_TransportWith(p, res) ==
  /\ pc[p] = "fetch"
  /\ LET slice == ToSet(Batches(p)[pf[p].b])
         last == pf[p].b = Len(Batches(p))
         filled(v) == [id \in Ids |-> IF id \in slice THEN v[id] ELSE pf[p].fetched[id]]
         out == IF res = "ok"
                THEN filled([id \in Ids |-> UpstreamRow(id)])
                ELSE filled([id \in Ids |-> "undef"])
     IN IF res # "ok" /\ pf[p].tr < Len(Transports)
        THEN /\ pf' = [pf EXCEPT ![p].tr = pf[p].tr + 1]
             /\ pc' = pc
        ELSE /\ pf' = [pf EXCEPT ![p].fetched = out,
                                 ![p].b = IF last THEN pf[p].b ELSE pf[p].b + 1,
                                 ![p].tr = 1]
             /\ pc' = [pc EXCEPT ![p] = IF last THEN "collect" ELSE "fetch"]
  /\ UNCHANGED <<lock, cache, queue, ver, rd, tk, sent, claim>>

PF_Transport(p) ==
  \E res \in TransportResults : PF_TransportWith(p, res)

\* the row postFetch settles on for a miss: the cache entry if there is one
\* by now, else the sanitized fetch result
CollectRow(c, loc, fetched, id) ==
  LET row == ParseCached(c[<<loc, id>>])
  IN IF row = "undefined" THEN SanitizeAgg(fetched[id]) ELSE row

\* the re-read of the cache and the loop that fills toPutPos and toPutNeg
PF_Collect(p) ==
  /\ pc[p] = "collect"
  /\ LET row(id) == CollectRow(cache, pf[p].loc, pf[p].fetched, id)
         pos == { id \in ToSet(pf[p].misses) : row(id) = "row" }
         neg == { id \in ToSet(pf[p].misses) : row(id) = "null" }
     IN /\ pf' = [pf EXCEPT ![p].pos = pos, ![p].neg = neg]
        /\ pc' = [pc EXCEPT ![p] = IF pos \cup neg = {} THEN "done" ELSE "write_wait"]
  /\ UNCHANGED <<lock, cache, queue, ver, rd, tk, sent, claim>>

PF_WriteLock(p) ==
  /\ DocLock(p, "write_wait", "write_cs")
  /\ UNCHANGED <<cache, queue, ver, rd, tk, sent, claim, pf>>

PF_WriteFailOpen(p) ==
  /\ DocLockFailOpen(p, "write_wait", "write_cs")
  /\ UNCHANGED <<cache, queue, ver, rd, tk, sent, claim, pf>>

\* the putAll calls of toPutPos and toPutNeg
PutRows(c, loc, pos, neg) ==
  [k \in Keys |->
     IF k[1] = loc /\ k[2] \in pos THEN "pos"
     ELSE IF k[1] = loc /\ k[2] \in neg THEN "null"
     ELSE c[k]]

PF_Write(p) ==
  /\ pc[p] = "write_cs"
  /\ cache' = PutRows(cache, pf[p].loc, pf[p].pos, pf[p].neg)
  /\ lock' = DocRelease(p)
  /\ pc' = [pc EXCEPT ![p] = "done"]
  /\ UNCHANGED <<queue, ver, rd, tk, sent, claim, pf>>

InitMain ==
  /\ lock = NoProc
  /\ cache = [k \in Keys |-> "absent"]
  /\ queue = AbsentQueue
  /\ pc = [p \in Procs |-> "idle"]
  /\ ver = "Main"
  /\ rd = [p \in Readers |-> NoCall]
  /\ tk = [p \in Tickers |-> NoTick]
  /\ sent = [k \in Keys |-> 0]
  /\ claim = [k \in Keys |-> "absent"]
  /\ pf = [p \in Callers |-> NoFetch]

NextMain ==
  \/ \E p \in Callers : PF_Call(p)
  \/ \E p \in Callers : PF_ClaimLock(p)
  \/ \E p \in Callers : PF_ClaimFailOpen(p)
  \/ \E p \in Callers : PF_ClaimCheck(p)
  \/ \E p \in Callers : PF_ClaimPut(p)
  \/ \E p \in Callers : PF_Poll(p)
  \/ \E p \in Callers : PF_Transport(p)
  \/ \E p \in Callers : PF_Collect(p)
  \/ \E p \in Callers : PF_WriteLock(p)
  \/ \E p \in Callers : PF_WriteFailOpen(p)
  \/ \E p \in Callers : PF_Write(p)

SpecMain == InitMain /\ [][NextMain]_vars

\* ======================================================================
\* Properties of postFetch (SpecMain)
\* ======================================================================
\* key k is one of the misses of p's call
Misses(p, k) == pf[p].loc = k[1] /\ k[2] \in ToSet(pf[p].misses)

\* p has key k in its claimables
Claims(p, k) == pf[p].loc = k[1] /\ k[2] \in ToSet(pf[p].claimables)

\* p has sent, or is sending, k to the upstream service
Fetches(p, k) ==
  /\ pf[p].loc = k[1]
  /\ \/ pf[p].fetched[k[2]] # "none"
     \/ pc[p] = "fetch" /\ k[2] \in ToSet(Batches(p)[pf[p].b])

\* p has run the claim check for its misses
RanClaimCheck(p) == pf[p].lk # "none" /\ pc[p] # "claim_check"

Claimers(k) == { p \in Callers : Claims(p, k) }
Fetchers(k) == { p \in Callers : Fetches(p, k) }

C2_FailedNotCached ==
  [][\A p \in Callers : \A id \in Ids :
       (PF_Write(p) /\ pf[p].fetched[id] = "undef"
                    /\ cache[<<pf[p].loc, id>>] = "absent")
       => cache'[<<pf[p].loc, id>>] = "absent"]_vars

\* ======================================================================
\* Properties of the queue pipeline (Spec)
\* ======================================================================
QueuedKeys(tasks) ==
  { k \in Keys : Occurrences(tasks, k[1], k[2]) > 0 }

\* a reader's _queueMissingItems returns normally in this step
EnqueueStep(p) ==
  /\ pc[p] \in {"enq_cs", "enq_write"}
  /\ pc'[p] = "done"

\* a tick leaves its locked section in this step
DrainStep(p) ==
  /\ pc[p] = "tick_cs"
  /\ pc'[p] # "tick_cs"

FailedResponses == {"non200", "badjson"}

\* C3: when the response for a drained task is a failure (non-200 or
\* unparsable body), the tick has put every id of that task back into the
\* queue by the time it ends.
C3_FailedTaskRequeued ==
  [][\A p \in Tickers : \A resp \in FailedResponses :
       ((V3_Process(p, resp) \/ P_Response(p, resp)) /\ pc'[p] = "done")
       => LET task == tk[p].final[tk[p].i]
          IN ToSet(task.ids) \subseteq QueuedIds(queue'.tasks, LocOf(task))]_vars

\* both readers asked for the same ids at the same location, missed them all
\* and returned from _queueMissingItems
SameMiss(p, q) ==
  /\ p # q
  /\ pc[p] = "done" /\ pc[q] = "done"
  /\ rd[p].loc = rd[q].loc
  /\ rd[p].ids = rd[q].ids
  /\ rd[p].missing = rd[p].ids /\ rd[q].missing = rd[q].ids
  /\ rd[p].ids # <<>>

\* exactly one tick has run, it has ended normally, and the queue is empty
OneTickDone(t) ==
  /\ pc[t] = "done"
  /\ \A u \in Tickers \ {t} : pc[u] = "idle"
  /\ queue.tasks = <<>>

\* no tick has seen fetchAll throw (a thrown fetch is retried by a later tick)
NoTickFailed ==
  \A t \in Tickers :
    /\ pc[t] \notin {"requeue_wait", "requeue_cs", "threw"}
    /\ pc[t] = "done" => tk[t].i > Len(tk[t].final)

\* C4: in V3, when two reads of the same id set at the same location both
\* missed and both enqueued, and no fetch has failed, every one of those ids
\* has been sent upstream at most once.
C4_OneRequest ==
  ver = "V3" =>
    \A p, q \in Readers :
      (SameMiss(p, q) /\ NoTickFailed)
      => \A i \in DOMAIN rd[p].ids : sent[<<rd[p].loc, rd[p].ids[i]>>] <= 1

\* what does hold of C4 in V3: when no tick has run yet every id is queued
\* once, and when one tick has run and left the queue empty it has sent every
\* id once, in one task when the ids fit one chunk
AfterBothEnqueues ==
  ver = "V3" =>
    \A p, q \in Readers :
      SameMiss(p, q) =>
        /\ (\A u \in Tickers : pc[u] = "idle")
             => \A i \in DOMAIN rd[p].ids :
                  Occurrences(queue.tasks, rd[p].loc, rd[p].ids[i]) = 1
        /\ \A t \in Tickers :
             OneTickDone(t) =>
               /\ \A i \in DOMAIN rd[p].ids : sent[<<rd[p].loc, rd[p].ids[i]>>] = 1
               /\ Len(rd[p].ids) <= MAX_ID_PER_CHUNK
                    => tk[t].final = << Task(rd[p].loc, rd[p].ids) >>

\* C5: no two queued tasks of one location share an id, and no task holds an
\* id twice (stated for V3, the newest version).
C5_NoOverlap ==
  ver = "V3" =>
    \A k \in Keys : Occurrences(queue.tasks, k[1], k[2]) <= 1

\* C6: every queued task holds at most MAX_ID_PER_CHUNK ids.
C6_ChunkCap ==
  \A i \in DOMAIN queue.tasks : Len(queue.tasks[i].ids) <= MAX_ID_PER_CHUNK

\* C7: in V3, from any queue the pipeline can hold, two calls of
\* _queueMissingItems with the same id for the same location leave that id
\* queued exactly once, and the second call changes nothing.
C7_TwiceLeavesOne ==
  (ver = "V3" /\ queue.st # "corrupt") =>
    \A loc \in Locations : \A id \in Ids :
      LET first == QueueMissingItemsV3(queue.tasks, << id >>, loc)
          second == QueueMissingItemsV3(first, << id >>, loc)
      IN /\ Occurrences(second, loc, id) = 1
         /\ second = first

\* what does hold of C7 in V3 and Old: an enqueue leaves every id it was
\* given queued once if it was not queued before, and as often as before
\* otherwise; when all its ids were already queued the stored queue is left
\* as it was
EnqueueAddsOnlyNew ==
  [][\A p \in Readers :
       ((V3_Enqueue(p) \/ Old_Enqueue(p)) /\ EnqueueStep(p))
       => LET loc == rd[p].loc
              M == ToSet(rd[p].missing)
          IN /\ \A id \in M :
                  Occurrences(queue'.tasks, loc, id) =
                    IF Occurrences(queue.tasks, loc, id) = 0
                    THEN 1 ELSE Occurrences(queue.tasks, loc, id)
             /\ (M \subseteq QueuedIds(queue.tasks, loc)) => queue' = queue]_vars

\* C8: an enqueue keeps every key that was queued and adds its own ids, so
\* the ids of two concurrent enqueuers are both queued afterwards.
C8_NoLostEnqueue ==
  [][\A p \in Readers :
       EnqueueStep(p)
       => /\ QueuedKeys(queue.tasks) \subseteq QueuedKeys(queue'.tasks)
          /\ ToSet(rd[p].missing) \subseteq QueuedIds(queue'.tasks, rd[p].loc)]_vars

\* C9: the drain step of a tick (V3, Pulse) takes the whole queue as it is
\* at that step and leaves it empty, and no later step of the tick removes
\* a key that an enqueue has put into the queue meanwhile.
C9_AtomicDrain ==
  [][\A p \in Tickers :
       /\ (ver \in {"V3", "Pulse"} /\ DrainStep(p))
            => /\ queue'.tasks = <<>>
               /\ QueuedKeys(queue.tasks) \subseteq QueuedKeys(tk'[p].tasks)
       /\ (ver \in {"V3", "Pulse"} /\ pc[p] \in {"fetch", "process", "requeue_cs"}
             /\ pc'[p] # pc[p])
            => QueuedKeys(queue.tasks) \subseteq QueuedKeys(queue'.tasks)]_vars

\* C10: a process whose upstream request is in flight does not hold the lock.
C10_NoLockInFetch ==
  \A p \in Tickers : pc[p] = "fetch" => lock # p

\* ======================================================================
\* Read accessor, population and claims
\* ======================================================================
\* C11: a call of the read accessor never has an upstream request in flight
\* and never sits in the wait loop for one: the readers of the queue pipeline
\* only read and enqueue, and a marketStatData call of Main.js (a postFetch
\* caller) is never at the fetch or in the poll.
C11_ReadNeverFetches ==
  /\ \A p \in Readers : pc[p] \in {"idle", "enq_wait", "enq_cs", "enq_write", "done", "threw"}
  /\ \A p \in Callers : pc[p] \notin {"fetch", "wait"}

\* p's call missed id at its location and its _queueMissingItems returned
Enqueued(p, loc, id) ==
  /\ pc[p] = "done"
  /\ rd[p].loc = loc
  /\ id \in ToSet(rd[p].missing)

\* a running tick holds key k: in the tasks it drained or in its copy of the
\* queue
HeldByTick(t, k) ==
  /\ pc[t] \notin {"idle", "done", "threw"}
  /\ k \in QueuedKeys(tk[t].tasks) \cup QueuedKeys(tk[t].final)

\* C12, as what every finite run must keep for the id to be populated later:
\* an id that a read enqueued has a cache entry, or is still in the queue, or
\* is held by a running tick. Otherwise no later tick fetches it.
C12_EnqueuedNotLost ==
  \A p \in Readers : \A k \in Keys :
    Enqueued(p, k[1], k[2])
    => \/ cache[k] # "absent"
       \/ k \in QueuedKeys(queue.tasks)
       \/ \E t \in Tickers : HeldByTick(t, k)

\* C13 (V3): a 200 response stores the negative sentinel for every requested
\* id it omits; a read that finds the sentinel returns blank for the id and
\* does not list it as missing, and its enqueue leaves that id's queue
\* occurrences as they were.
C13_NegativeCached ==
  [][ver = "V3" =>
       /\ \A t \in Tickers :
            V3_Process(t, "ok")
            => LET task == tk[t].final[tk[t].i]
               IN \A id \in ToSet(task.ids) \ KnownIds :
                    cache'[<<LocOf(task), id>>] = "null"
       /\ \A p \in Readers : \A ids \in Inputs : \A loc \in Locations :
            ReadCall(p, ids, loc)
            => \A i \in DOMAIN ids :
                 cache[<<loc, ids[i]>>] = "null"
                 => /\ MarketStatDataV3(cache, loc, ids)[i] = "blank"
                    /\ ids[i] \notin ToSet(rd'[p].missing)
       /\ \A p \in Readers :
            V3_Enqueue(p)
            => \A id \in ToSet(rd[p].ids) \ ToSet(rd[p].missing) :
                 Occurrences(queue'.tasks, rd[p].loc, id)
                   = Occurrences(queue.tasks, rd[p].loc, id)]_vars

\* a V3 read of the id the service does not know came after one request for
\* it: the id has the negative sentinel, the read did not list it as missing
\* and the id is not queued
C13_Witness ==
  /\ ver = "V3"
  /\ \E p \in Readers :
       /\ pc[p] = "done"
       /\ MaxId \in ToSet(rd[p].ids)
       /\ MaxId \notin ToSet(rd[p].missing)
       /\ cache[<<rd[p].loc, MaxId>>] = "null"
       /\ sent[<<rd[p].loc, MaxId>>] = 1
       /\ Occurrences(queue.tasks, rd[p].loc, MaxId) = 0


\* C14: after a tick's fetch of a task succeeds (a 200 response with a JSON
\* body), a cache read of the ids of that task reports no missing id, the ids
\* the service does not know included.
C14_TaskResolvedTogether ==
  [][/\ \A t \in Tickers :
          V3_Process(t, "ok")
          => LET task == tk[t].final[tk[t].i]
             IN GetCachedMissing(cache', LocOf(task), task.ids) = <<>>
     /\ \A t \in Tickers :
          P_Response(t, "ok")
          => LET task == tk[t].final[1]
             IN GetCachedMissing(cache', LocOf(task), task.ids) = <<>>
     /\ \A t \in Tickers :
          (Old_Response(t, "ok") /\ Len(tk[t].final) = 1)
          => LET task == tk[t].final[1]
             IN GetCachedMissing(cache', LocOf(task), task.ids) = <<>>]_vars


\* ------------------------------------------- read accessor on a cell range
\* cells per call
MaxCells == 2

\* a flat range of cells: ids, empty cells and cells that are not numbers
CellInputs == [1..MaxCells -> Ids \cup {ZeroCell, NoId}]

\* cache contents the variant can have produced, the same at every location:
\* rows for known ids, the negative sentinel only where V3 wrote it
CachesOf(v) ==
  { c \in [Keys -> {"absent", "pos", "null"}] :
      /\ \A k \in Keys :
           /\ c[k] = "pos" => k[2] \in KnownIds
           /\ c[k] = "null" => v = "V3"
      /\ \A k1, k2 \in Keys : k1[2] = k2[2] => c[k1] = c[k2] }

InitCells ==
  /\ lock = NoProc
  /\ ver \in {"V3", "Old"}
  /\ cache \in CachesOf(ver)
  /\ queue = AbsentQueue
  /\ pc = [p \in Procs |-> "idle"]
  /\ rd = [p \in Readers |-> NoCall]
  /\ tk = [p \in Tickers |-> NoTick]
  /\ sent = [k \in Keys |-> 0]
  /\ claim = [k \in Keys |-> "absent"]
  /\ pf = [p \in Callers |-> NoFetch]

\* marketStatData on a range of cells up to the call of _queueMissingItems;
\* out is the array it returns if the enqueue does not throw
CellsCall(p, cells, loc) ==
  /\ pc[p] = "idle"
  /\ LET inp == ProcessInputIds(cells, ver)
         missing == SelectSeq(inp.validIds, LAMBDA id : CacheAt(cache, loc, id) = "absent")
         out == IF ver = "V3" THEN MarketStatDataV3(cache, loc, inp.flatIds)
                ELSE MarketStatDataOld(cache, loc, inp.flatIds)
     IN /\ rd' = [rd EXCEPT ![p] =
                    [loc |-> loc, ids |-> inp.validIds, missing |-> missing, q |-> <<>>,
                     cells |-> cells, out |-> out]]
        /\ pc' = [pc EXCEPT ![p] = IF missing = <<>> THEN "done" ELSE "enq_wait"]
  /\ UNCHANGED <<lock, cache, queue, ver, tk, sent, claim, pf>>

ReadCells(p) ==
  \E cells \in CellInputs, loc \in Locations : CellsCall(p, cells, loc)

NextCells ==
  \E p \in Readers :
    \/ ReadCells(p)
    \/ EnqueueLock(p)
    \/ EnqueueTimeout(p)
    \/ V3_Enqueue(p)
    \/ Old_Enqueue(p)

SpecCells == InitCells /\ [][NextCells]_vars

\* the value the read accessor is to return for one cell, from the cell and
\* the cache entry of its id
Expected(c, loc, cell) ==
  IF cell \notin Ids THEN "blank"
  ELSE IF c[<<loc, cell>>] = "absent" THEN "pending"
  ELSE IF c[<<loc, cell>>] = "null" THEN "blank"
  ELSE IF cell \in ThinIds THEN "blank" ELSE "number"

\* C15: the array marketStatData returns has one position per input cell; a
\* position holds a number for a positive entry with a finite selected field,
\* the pending placeholder for an id that missed and is enqueued, and blank
\* for a negative entry or a cell that is not a valid id; no invalid id is
\* listed as missing or enqueued.
C15_ReadOutput ==
  \A p \in Readers :
    pc[p] # "idle"
    => /\ DOMAIN rd[p].out = DOMAIN rd[p].cells
       /\ \A i \in DOMAIN rd[p].cells :
            rd[p].out[i] = Expected(cache, rd[p].loc, rd[p].cells[i])
       /\ ToSet(rd[p].missing) \subseteq Ids
       /\ \A l \in Locations : QueuedIds(queue.tasks, l) \subseteq Ids


\* C16: a response of status 200 with an empty body, and a response whose body
\* is not JSON, are failed fetches: processing one writes no negative cache
\* entry for any id.
C16_FailedBodyNotNegative ==
  [][\A t \in Tickers : \A resp \in {"empty", "badjson"} :
       V3_Process(t, resp)
       => \A k \in Keys : cache'[k] = "null" => cache[k] = "null"]_vars


\* C17: the claim step of postFetch grants no key that has, when the step
\* checks, a data entry (positive or negative) or a claim record in the cache.
C17_GrantsOnlyFree ==
  [][\A p \in Callers :
       PF_ClaimCheck(p)
       => \A id \in ToSet(pf'[p].claimables) :
            /\ cache[<<pf[p].loc, id>>] = "absent"
            /\ claim[<<pf[p].loc, id>>] = "absent"]_vars

\* a claim check has granted one of the caller's misses and refused another
\* that carries a claim record
C17_Witness ==
  \E p \in Callers :
    /\ pc[p] = "claim_put"
    /\ pf[p].claimables # <<>>
    /\ \E id \in ToSet(pf[p].misses) \ ToSet(pf[p].claimables) :
         claim[<<pf[p].loc, id>>] = "stamp"

\* a claim check has refused a miss because its data arrived in the meantime
C17_RefusedForData ==
  \E p \in Callers :
    /\ pc[p] = "claim_put"
    /\ \E id \in ToSet(pf[p].misses) \ ToSet(pf[p].claimables) :
         cache[<<pf[p].loc, id>>] # "absent"


\* ------------------------------------------------ claim leases (postFetch)
\* a claim record that is never removed
ExpireNever(cl, k) == cl

\* the cache drops a claim record when its CLAIM_TTL_S have passed
Expire(cl, k) == [cl EXCEPT ![k] = "absent"]

\* the lifetime of the claim record of k ends; nothing else changes
ClaimExpire(k) ==
  /\ claim[k] = "stamp"
  /\ claim' = Expire(claim, k)
  /\ UNCHANGED <<lock, cache, queue, pc, ver, rd, tk, sent, pf>>

\* the execution of a claimer ends before its cache write; the platform
\* releases the lock of an execution that ends
PF_Crash(p) ==
  /\ pc[p] \in {"fetch", "collect", "write_wait", "write_cs"}
  /\ pf[p].claimables # <<>>
  /\ pc' = [pc EXCEPT ![p] = "crashed"]
  /\ lock' = DocRelease(p)
  /\ UNCHANGED <<cache, queue, ver, rd, tk, sent, claim, pf>>

\* calls of the lease specification: ids of one location
LeaseInputs == { SeqOfSet(1..b) : b \in 1..MAX_ID_PER_CHUNK }
LeaseLoc == CHOOSE l \in Locations : TRUE

NextLease ==
  \/ \E p \in Callers : \E ids \in LeaseInputs : PF_CallWith(p, ids, LeaseLoc)
  \/ \E p \in Callers : PF_ClaimLock(p)
  \/ \E p \in Callers : PF_ClaimFailOpen(p)
  \/ \E p \in Callers : PF_ClaimCheck(p)
  \/ \E p \in Callers : PF_ClaimPut(p)
  \/ \E p \in Callers : PF_Poll(p)
  \/ \E p \in Callers : PF_Transport(p)
  \/ \E p \in Callers : PF_Collect(p)
  \/ \E p \in Callers : PF_WriteLock(p)
  \/ \E p \in Callers : PF_WriteFailOpen(p)
  \/ \E p \in Callers : PF_Write(p)
  \/ \E p \in Callers : PF_Crash(p)
  \/ \E k \in Keys : ClaimExpire(k)

SpecLease == InitMain /\ [][NextLease]_vars

\* time passes: the lifetime of every claim record ends
SpecLeaseFair == SpecLease /\ \A k \in Keys : WF_vars(ClaimExpire(k))


\* a claimer has crashed before its cache write and left the claim record of k
Orphaned(k) ==
  /\ claim[k] = "stamp"
  /\ cache[k] = "absent"
  /\ \E p \in Callers :
       /\ pc[p] = "crashed"
       /\ pf[p].loc = k[1]
       /\ k[2] \in ToSet(pf[p].claimables)

\* C18: the claim record a crashed claimer left behind goes away when its
\* lifetime ends, so no key stays unclaimable for ever; a claim check that
\* runs after that finds the key free and grants it.
C18_SelfHealing ==
  /\ \A k \in Keys : Orphaned(k) ~> (claim[k] = "absent")
  /\ [][\A p \in Callers :
          PF_ClaimCheck(p)
          => \A id \in ToSet(pf[p].misses) :
               (/\ cache[<<pf[p].loc, id>>] = "absent"
                /\ claim[<<pf[p].loc, id>>] = "absent")
               => id \in ToSet(pf'[p].claimables)]_vars

\* a claimer crashed before its cache write, and a later call has claimed the
\* same key and is fetching it: the second request for the key
C18_Witness ==
  \E k \in Keys : \E p, q \in Callers :
    /\ pc[p] = "crashed"
    /\ pf[p].loc = k[1]
    /\ k[2] \in ToSet(pf[p].claimables)
    /\ pc[q] = "fetch"
    /\ pf[q].loc = k[1]
    /\ k[2] \in ToSet(pf[q].claimables)
    /\ sent[k] = 2
    /\ cache[k] = "absent"


\* C19: a postFetch caller that claimed none of its misses starts no request;
\* it makes at most WAIT_FOR_CLAIM_MS / WAIT_STEP_MS (12) passes of the wait
\* loop and then leaves the loop, whether the keys are populated or not.
C19_NonClaimerBounded ==
  /\ WAIT_FOR_CLAIM_MS \div WAIT_STEP_MS = 12
  /\ \A p \in Callers :
       /\ pf[p].t <= WAIT_FOR_CLAIM_MS \div WAIT_STEP_MS
       /\ pc[p] = "wait" => pf[p].t < WAIT_FOR_CLAIM_MS \div WAIT_STEP_MS
       /\ (pc[p] = "wait" \/ pf[p].t > 0)
          => /\ pf[p].claimables = <<>>
             /\ pf[p].b = 0
             /\ pf[p].fetched = NoFetch.fetched
       /\ pc[p] = "fetch" => pf[p].claimables # <<>>

\* a caller that claimed nothing has made the last pass of the wait loop and
\* left it with one of its keys still not populated
C19_Witness ==
  \E p \in Callers :
    /\ pc[p] = "collect"
    /\ pf[p].claimables = <<>>
    /\ pf[p].t = 12
    /\ \E id \in ToSet(pf[p].misses) : cache[<<pf[p].loc, id>>] = "absent"


\* C20: when a lock is not acquired within its wait, the operation it guards
\* still runs and no error reaches the caller: an enqueue or a drain whose
\* wait for the lock ran out goes on to its guarded section.
C20_FailsOpen ==
  [][/\ \A p \in Readers : EnqueueTimeout(p) => pc'[p] = "enq_cs"
     /\ \A t \in Tickers : TickTimeout(t) => pc'[t] = "tick_cs"]_vars

\* C21: no call of the read accessor ends in an error raised to its caller,
\* whatever fails underneath (the lock, the queue contents, the cache store).
C21_ReadNeverRaises ==
  \A p \in Readers : pc[p] # "threw"

\* ------------------------------------------ reads of a malformed cache value
\* cache contents with at least one value that is not JSON, the same at every
\* location
ParseCaches(v) ==
  { c \in [Keys -> {"absent", "pos", "null", "bad"}] :
      /\ \A k \in Keys :
           /\ c[k] = "pos" => k[2] \in KnownIds
           /\ c[k] = "null" => v \in {"V3", "Main"}
      /\ \A k1, k2 \in Keys : k1[2] = k2[2] => c[k1] = c[k2]
      /\ \E k \in Keys : c[k] = "bad" }

InitParse ==
  /\ lock = NoProc
  /\ ver \in {"V3", "Old", "Main"}
  /\ cache \in ParseCaches(ver)
  /\ queue = AbsentQueue
  /\ pc = [p \in Procs |-> "idle"]
  /\ rd = [p \in Readers |-> NoCall]
  /\ tk = [p \in Tickers |-> NoTick]
  /\ sent = [k \in Keys |-> 0]
  /\ claim = [k \in Keys |-> "absent"]
  /\ pf = [p \in Callers |-> NoFetch]

\* the cache read of each variant, and the enqueue that follows it
NextParse ==
  \/ ver # "Main" /\ \E p \in Readers : Read(p)
  \/ \E p \in Readers : EnqueueLock(p)
  \/ \E p \in Readers : EnqueueTimeout(p)
  \/ \E p \in Readers : V3_Enqueue(p)
  \/ \E p \in Readers : Old_Enqueue(p)
  \/ ver = "Main" /\ \E p \in Callers : PF_Call(p)

SpecParse == InitParse /\ [][NextParse]_vars

C23_TaskTakenOnce ==
  [][\A t \in Tickers :
       DrainStep(t)
       => /\ queue'.st # "corrupt"
          /\ \A u \in Tickers \ {t} :
               QueuedKeys(tk[u].final) \cap QueuedKeys(queue.tasks) = {}
               => QueuedKeys(tk'[t].final) \cap QueuedKeys(tk[u].final) = {}]_vars

\* the queue has no key, or holds a list of zero tasks
QueueEmpty == queue.st = "absent" \/ (queue.st = "json" /\ queue.tasks = <<>>)

\* C24: a tick that finds the queue empty stops at once: it ends in that
\* step, sends no request and leaves every cache entry as it is.
C24_EmptyQueueStops ==
  [][\A t \in Tickers :
       (QueueEmpty /\ (V3_Drain(t) \/ P_TickRead(t)))
       => /\ pc'[t] = "done"
          /\ sent' = sent
          /\ cache' = cache
          /\ tk' = tk]_vars

\* a tick has found the queue empty and stopped, after another tick had
\* fetched a task and filled the cache
C24_Witness ==
  /\ ver \in {"V3", "Pulse"}
  /\ \E t \in Tickers :
       /\ pc[t] = "done"
       /\ tk[t] = NoTick
       /\ \E k \in Keys : cache[k] = "pos" /\ sent[k] = 1

\* ------------------------------------------------------ successor trigger
\* the end of fuzzworkCacheRefresh (Pulse): a successor trigger is created
\* when the tick's copy of the queue still has tasks after the shift
RearmPulse(rest) == Len(rest) > 0

\* the end of fuzzworkCacheRefresh (Old): after a task was processed the
\* trigger is created whatever is left of the queue
RearmOld(rest) == TRUE

\* C25: a tick creates a successor trigger only when tasks remain in the
\* queue or its fetch failed: a tick whose one request succeeded and that
\* ends with the queue empty creates none.
C25_RearmOnlyForWork ==
  [][\A t \in Tickers :
       /\ (P_Response(t, "ok") /\ RearmPulse(tk[t].tasks))
          => queue'.st = "json" /\ queue'.tasks # <<>>
       /\ (Old_Response(t, "ok") /\ Len(tk[t].final) = 1 /\ RearmOld(tk[t].tasks))
          => queue'.st = "json" /\ queue'.tasks # <<>>]_vars

\* ------------------------------- transports and retries of one batch (Main)
\* calls of fn() that withRetries makes at most: { max: 4 }
RETRY_MAX == 4

\* what one call of UrlFetchApp.fetch can end with: a 200 with a JSON object,
\* a 200 with JSON that is not an object (a number, a string, false), a 200
\* with an empty body, a 200 with a body that is not JSON, a 429/420/5xx
\* status, another non-200 status, an exception whose message matches the
\* retry pattern, and any other exception
AttemptOutcomes ==
  {"ok200", "scalar200", "empty200", "badjson200", "http5xx", "non200",
   "netfault", "othererr"}

\* withRetries: the outcomes after which the loop sleeps and calls fn() again
\* (forced `HTTP code` errors and exceptions that match retryPattern)
RetriedInLoop(o) == o \in {"http5xx", "netfault"}

\* the transport sets `succeeded`: status 200 and _parseOrNull_ gave a value
\* that is not null
Succeeded(o) == o \in {"ok200", "scalar200"}

\* out[id] of the batch when it is settled by outcome o:
\* `succeeded && obj && typeof obj === 'object'`
BatchOut(o) == IF o = "ok200" THEN "rows" ELSE "undefined"

NoBatch == [tr |-> 0, i |-> 0, tried |-> <<>>, out |-> "none"]

InitRetry ==
  /\ lock = NoProc
  /\ cache = [k \in Keys |-> "absent"]
  /\ queue = AbsentQueue
  /\ pc = [p \in Procs |-> "idle"]
  /\ ver = "Main"
  /\ rd = [p \in Readers |-> NoCall]
  /\ tk = [p \in Tickers |-> NoTick]
  /\ sent = [k \in Keys |-> 0]
  /\ claim = [k \in Keys |-> "absent"]
  /\ pf = [p \in Callers |-> NoBatch]

\* fetchFuzzAggsInBatches_ starts a batch with the JSON POST
RT_Begin(p) ==
  /\ pc[p] = "idle"
  /\ pc' = [pc EXCEPT ![p] = "attempt"]
  /\ pf' = [pf EXCEPT ![p] = [tr |-> 1, i |-> 0, tried |-> << Transports[1] >>, out |-> "none"]]
  /\ UNCHANGED <<lock, cache, queue, ver, rd, tk, sent, claim>>

\* one call of fn() by withRetries for the current transport ends with o:
\* the loop retries, or the transport settles the batch, or the next
\* transport starts, or the batch is given up
RT_Attempt(p, o) ==
  /\ pc[p] = "attempt"
  /\ IF RetriedInLoop(o) /\ pf[p].i < RETRY_MAX - 1
     THEN /\ pf' = [pf EXCEPT ![p].i = pf[p].i + 1]
          /\ pc' = pc
     ELSE IF Succeeded(o)
     THEN /\ pf' = [pf EXCEPT ![p].out = BatchOut(o)]
          /\ pc' = [pc EXCEPT ![p] = "done"]
     ELSE IF pf[p].tr < Len(Transports)
     THEN /\ pf' = [pf EXCEPT ![p].tr = pf[p].tr + 1, ![p].i = 0,
                              ![p].tried = Append(pf[p].tried, Transports[pf[p].tr + 1])]
          /\ pc' = pc
     ELSE /\ pf' = [pf EXCEPT ![p].out = "undefined"]
          /\ pc' = [pc EXCEPT ![p] = "done"]
  /\ UNCHANGED <<lock, cache, queue, ver, rd, tk, sent, claim>>

NextRetry ==
  \/ \E p \in Callers : RT_Begin(p)
  \/ \E p \in Callers : \E o \in AttemptOutcomes : RT_Attempt(p, o)

SpecRetry == InitRetry /\ [][NextRetry]_vars

\* C26: the transports of a batch are tried in the order JSON POST, form
\* POST, GET; a later one starts only when the one before did not succeed,
\* none starts after a success, and the ids of the batch are marked
\* undefined only when all three have failed.
C26_FallbackOrder ==
  [][\A p \in Callers : \A o \in AttemptOutcomes :
       RT_Attempt(p, o)
       => /\ pf'[p].tried = SubSeq(Transports, 1, Len(pf'[p].tried))
          /\ pf'[p].tr # pf[p].tr => (~Succeeded(o) /\ pf'[p].tr = pf[p].tr + 1)
          /\ Succeeded(o) => pc'[p] = "done"
          /\ pf'[p].out = "undefined" => pf'[p].tried = Transports]_vars

\* the conditions the fetcher is to retry: rate-limit and 5xx status codes,
\* network faults, empty 200 bodies and malformed bodies
Transient == {"http5xx", "netfault", "empty200", "badjson200"}

\* C27: an attempt that ends in a transient condition is retried on the same
\* transport as long as the retry budget of that transport is not used up;
\* the fetcher moves on only after that.
C27_RetriedUntilExhausted ==
  [][\A p \in Callers : \A o \in Transient :
       (RT_Attempt(p, o) /\ pf[p].i < RETRY_MAX - 1)
       => /\ pc'[p] = "attempt"
          /\ pf'[p].tr = pf[p].tr
          /\ pf'[p].i = pf[p].i + 1]_vars

\* --------------------------------------------------- lifetimes of entries
Scopes == {"station", "system", "region"}

\* a negative lifetime no longer than a positive one
FUZ_NEG_TTL_SHORT == 30 * 60

\* FUZ_NEG_TTL (Main) and NEGATIVE_CACHE_TTL_SEC (V3): six hours
FUZ_NEG_TTL == 6 * 60 * 60

\* ttlForScope of Main.js, in seconds
TtlForScopeMain(lt) ==
  IF lt = "region" THEN 30 * 60 ELSE IF lt = "system" THEN 20 * 60 ELSE 10 * 60

\* ttlForScope of V3, in seconds
TtlForScopeV3(lt) == 30 * 60

JITTER_SECONDS == 300

\* Math.floor(Math.random() * (JITTER_SECONDS * 2 + 1)) - JITTER_SECONDS
RandomOffsets == (0 - JITTER_SECONDS)..JITTER_SECONDS

MaxOf(a, b) == IF a >= b THEN a ELSE b

\* the lifetime a positive entry is written with
PositiveTtl(v, lt, randomOffset) ==
  IF v = "Main" THEN TtlForScopeMain(lt)
  ELSE MaxOf(600, TtlForScopeV3(lt) + randomOffset)

\* the process whose cache writes the lifetime specification follows
TtlWriter == CHOOSE p \in Callers : TRUE

NoWrite == [scope |-> "none", pos |-> 0, neg |-> 0]

InitTtl ==
  /\ lock = NoProc
  /\ cache = [k \in Keys |-> "absent"]
  /\ queue = AbsentQueue
  /\ pc = [p \in Procs |-> "idle"]
  /\ ver \in {"Main", "V3"}
  /\ rd = [p \in Readers |-> NoCall]
  /\ tk = [p \in Tickers |-> NoTick]
  /\ sent = [k \in Keys |-> 0]
  /\ claim = [k \in Keys |-> "absent"]
  /\ pf = [p \in Callers |-> NoWrite]

\* one write of a response: its rows with the positive lifetime, its
\* not-found ids with the negative one
TTL_Write(lt, randomOffset) ==
  /\ pc[TtlWriter] = "idle"
  /\ pc' = [pc EXCEPT ![TtlWriter] = "done"]
  /\ pf' = [pf EXCEPT ![TtlWriter] =
              [scope |-> lt, pos |-> PositiveTtl(ver, lt, randomOffset), neg |-> FUZ_NEG_TTL]]
  /\ UNCHANGED <<lock, cache, queue, ver, rd, tk, sent, claim>>

NextTtl == \E lt \in Scopes : \E r \in RandomOffsets : TTL_Write(lt, r)

SpecTtl == InitTtl /\ [][NextTtl]_vars

\* C28: in every scope the lifetime of a negative entry is strictly longer
\* than the lifetime of any positive entry, the longest that the jitter can
\* give included.
C28_TtlSeparation ==
  \A p \in Callers :
    pf[p].scope \in Scopes
    => /\ pf[p].pos < pf[p].neg
       /\ \A r \in RandomOffsets : PositiveTtl(ver, pf[p].scope, r) < pf[p].neg

\* a V3 row is written with the longest lifetime the jitter gives
C28_Witness ==
  /\ ver = "V3"
  /\ pf[TtlWriter].scope = "region"
  /\ pf[TtlWriter].pos = 30 * 60 + JITTER_SECONDS
  /\ pf[TtlWriter].neg = 6 * 60 * 60


\* ---------------------------------------------------------------------
\* The cache writes of one response: how many entries each putAll carries
\* ---------------------------------------------------------------------

\* the most entries one response is modelled with
MaxEntries == 210

\* CHUNK of the positive writes (Main.js and V3)
CHUNK_POS == 80

\* CHUNK of the negative writes of Main.js
CHUNK_NEG == 200

\* for (i = 0; i < entries.length; i += CHUNK) putAll(entries.slice(i, i + CHUNK)):
\* the number of entries of each call, in order
ChunkedPutAll(n, chunk) ==
  [j \in 1..((n + chunk - 1) \div chunk) |->
     IF n - (j - 1) * chunk >= chunk THEN chunk ELSE n - (j - 1) * chunk]

\* cache.putAll(toPutNegative, ...): every entry in one call
WholePutAll(n) == IF n > 0 THEN <<n>> ELSE << >>

PositivePutAll(v, n) == ChunkedPutAll(n, CHUNK_POS)

NegativePutAll(v, n) ==
  IF v = "Main" THEN ChunkedPutAll(n, CHUNK_NEG) ELSE WholePutAll(n)

NoPut == [posCalls |-> << >>, negCalls |-> << >>]

InitPut ==
  /\ lock = NoProc
  /\ cache = [k \in Keys |-> "absent"]
  /\ queue = AbsentQueue
  /\ pc = [p \in Procs |-> "idle"]
  /\ ver \in {"Main", "V3"}
  /\ rd = [p \in Readers |-> NoCall]
  /\ tk = [p \in Tickers |-> NoTick]
  /\ sent = [k \in Keys |-> 0]
  /\ claim = [k \in Keys |-> "absent"]
  /\ pf = [p \in Callers |-> NoPut]

\* the writes of one response with nPos rows and nNeg ids that were not found
PUT_Write(nPos, nNeg) ==
  /\ pc[TtlWriter] = "idle"
  /\ pc' = [pc EXCEPT ![TtlWriter] = "done"]
  /\ pf' = [pf EXCEPT ![TtlWriter] =
              [posCalls |-> PositivePutAll(ver, nPos),
               negCalls |-> NegativePutAll(ver, nNeg)]]
  /\ UNCHANGED <<lock, cache, queue, ver, rd, tk, sent, claim>>

NextPut ==
  \E n \in 0..MaxEntries : \E nPos \in 0..n : PUT_Write(nPos, n - nPos)

SpecPut == InitPut /\ [][NextPut]_vars

\* C29: every putAll call carries at most 80 entries, positive and negative
\* entries alike, whatever the size of the task.
C29_PutAllAtMost80 ==
  \A p \in Callers :
    /\ \A j \in DOMAIN pf[p].posCalls : pf[p].posCalls[j] <= 80
    /\ \A j \in DOMAIN pf[p].negCalls : pf[p].negCalls[j] <= 80


\* ---------------------------------------------------------------------
\* The upstream requests of every variant of the fetcher
\* ---------------------------------------------------------------------

InitFetch == Init \/ InitMain

NextFetch ==
  \/ ver # "Main" /\ Next
  \/ ver = "Main" /\ NextMain

SpecFetch == InitFetch /\ [][NextFetch]_vars

\* the ids of the requests a process has in flight: one request per task of a
\* V3 tick, the task of a Pulse tick, the current slice of an Old tick, the
\* current batch of fetchFuzzAggsInBatches_
RequestsInFlight ==
  UNION { { tk[t].final[i].ids : i \in DOMAIN tk[t].final } :
            t \in { u \in Tickers : pc[u] = "fetch" /\ ver # "Old" } } \cup
  { tk[t].final[tk[t].i].ids : t \in { u \in Tickers : pc[u] = "fetch" /\ ver = "Old" } } \cup
  { Batches(p)[pf[p].b] : p \in { c \in Callers : pc[c] = "fetch" } }

\* C30: every upstream request carries at most 700 ids (MAX_ID_PER_CHUNK,
\* MAX_IDS_PER_POST, FETCH_BATCH), for any number of ids enqueued or passed in.
C30_RequestAtMost700 ==
  \A ids \in RequestsInFlight : Len(ids) <= MAX_ID_PER_CHUNK

\* more ids than one request may carry were asked for one location, and a
\* request with a full load of them is in flight
C30_Witness ==
  \E ids \in RequestsInFlight :
    /\ Len(ids) = MAX_ID_PER_CHUNK
    /\ \/ \E t \in Tickers : pc[t] = "fetch" /\ Len(tk[t].final) > 1
                            /\ LocOf(tk[t].final[1]) = LocOf(tk[t].final[2])
       \/ \E p \in Callers : pc[p] = "fetch" /\ Len(pf[p].claimables) > MAX_ID_PER_CHUNK


\* ---------------------------------------------------------------------
\* Sanitization of one upstream record (Main.js)
\* ---------------------------------------------------------------------

\* the longest string a field is modelled with
MaxStr == 2

\* a blank, two digits and a letter
Chars == {" ", "0", "5", "a"}

Digits == {"0", "5"}

Strings == UNION { [1..n -> Chars] : n \in 0..MaxStr }

\* JavaScript values: k is the kind, n the value of a finite number, s the
\* characters of a string
JsNull == [k |-> "null", n |-> 0, s |-> << >>]

JsUndefined == [k |-> "undefined", n |-> 0, s |-> << >>]

\* NaN and the infinities: typeof 'number', not finite
JsNaN == [k |-> "nan", n |-> 0, s |-> << >>]

JsTrue == [k |-> "boolean", n |-> 0, s |-> << >>]

JsNum(n) == [k |-> "number", n |-> n, s |-> << >>]

JsStr(s) == [k |-> "string", n |-> 0, s |-> s]

JsValues ==
  {JsNull, JsUndefined, JsNaN, JsTrue} \cup { JsNum(n) : n \in {0, 5} }
  \cup { JsStr(s) : s \in Strings }

TypeOf(x) == IF x.k \in {"number", "nan"} THEN "number" ELSE x.k

\* String.prototype.trim
RECURSIVE Trim(_)
Trim(s) ==
  IF s = << >> THEN s
  ELSE IF Head(s) = " " THEN Trim(Tail(s))
  ELSE IF s[Len(s)] = " " THEN Trim(SubSeq(s, 1, Len(s) - 1))
  ELSE s

DigitValue(c) == IF c = "5" THEN 5 ELSE 0

RECURSIVE Decimal(_)
Decimal(s) ==
  IF s = << >> THEN 0
  ELSE 10 * Decimal(SubSeq(s, 1, Len(s) - 1)) + DigitValue(s[Len(s)])

\* Number(s) of a string: 0 for the empty and the blank string, the decimal
\* value of a string of digits, NaN otherwise
NumberOf(s) ==
  LET t == Trim(s)
  IN IF t = << >> THEN JsNum(0)
     ELSE IF \A i \in DOMAIN t : t[i] \in Digits THEN JsNum(Decimal(t))
     ELSE JsNaN

\* Number.isFinite
IsFinite(x) == x.k = "number"

\* toNumOrNull without the test for the empty string
ToNumOrNullUntested(x) ==
  IF x.k \in {"null", "undefined"} THEN JsNull
  ELSE IF TypeOf(x) = "number" THEN (IF IsFinite(x) THEN x ELSE JsNull)
  ELSE IF TypeOf(x) = "string"
       THEN IF IsFinite(NumberOf(Trim(x.s))) THEN NumberOf(Trim(x.s)) ELSE JsNull
  ELSE JsNull

ToNumOrNull(x) ==
  IF x.k \in {"null", "undefined"} THEN JsNull
  ELSE IF TypeOf(x) = "number" THEN (IF IsFinite(x) THEN x ELSE JsNull)
  ELSE IF TypeOf(x) = "string"
       THEN LET s == Trim(x.s)
            IN IF s = << >> THEN JsNull
               ELSE IF IsFinite(NumberOf(s)) THEN NumberOf(s) ELSE JsNull
  ELSE JsNull


\* three of the eight _FUZZ_FIELDS; the loop treats the other five as "min"
FUZZ_FIELDS == {"min", "avg", "weightedAverage"}

\* what a field of an upstream side is modelled with
FieldValues == {JsUndefined, JsStr(<< >>), JsStr(<<"0">>), JsStr(<<"a">>), JsNum(5)}

\* a side that is no object has obj = FALSE
NoSide == [obj |-> FALSE, f |-> [k \in FUZZ_FIELDS |-> JsUndefined]]

Sides == {NoSide} \cup { [obj |-> TRUE, f |-> f] : f \in [FUZZ_FIELDS -> FieldValues] }

\* a value that is no object (undefined, null, a scalar) has obj = FALSE
NoRow == [obj |-> FALSE, buy |-> NoSide, sell |-> NoSide]

Rows == {NoRow} \cup { [obj |-> TRUE, buy |-> b, sell |-> s] : b \in Sides, s \in Sides }

\* the null of normalizeSide, and the {} that stands in for it in the result
NullSide == [some |-> FALSE, f |-> [k \in FUZZ_FIELDS |-> JsNull]]

\* the fields of a side after toNumOrNull and the avg fallback
NormalizedFields(side) ==
  LET out == [k \in FUZZ_FIELDS |-> ToNumOrNull(side.f[k])]
  IN IF out["avg"] = JsNull /\ out["weightedAverage"] # JsNull
     THEN [out EXCEPT !["avg"] = out["weightedAverage"]]
     ELSE out

\* normalizeSide that returns the fields even when none of them is a number
NormalizeSideAlways(side) ==
  IF ~side.obj THEN NullSide ELSE [some |-> TRUE, f |-> NormalizedFields(side)]

NormalizeSide(side) ==
  IF ~side.obj THEN NullSide
  ELSE IF \E k \in FUZZ_FIELDS : NormalizedFields(side)[k] # JsNull
       THEN [some |-> TRUE, f |-> NormalizedFields(side)]
       ELSE NullSide

NullAgg == [isNull |-> TRUE, buy |-> NullSide, sell |-> NullSide]

\* sanitizeAgg_
SanitizeAggRow(row) ==
  IF ~row.obj THEN NullAgg
  ELSE IF ~NormalizeSide(row.buy).some /\ ~NormalizeSide(row.sell).some THEN NullAgg
  ELSE [isNull |-> FALSE, buy |-> NormalizeSide(row.buy), sell |-> NormalizeSide(row.sell)]

\* postFetch, for an id that is still absent from the cache: the entry it
\* puts for the fetched record ("null" into toPutNeg, the row into toPutPos)
PostFetchEntry(row) == IF SanitizeAggRow(row).isNull THEN "null" ELSE "row"

NoSan == [fn |-> "none", x |-> JsUndefined, row |-> NoRow, num |-> JsNull,
          agg |-> NullAgg, entry |-> "none"]

InitSan ==
  /\ lock = NoProc
  /\ cache = [k \in Keys |-> "absent"]
  /\ queue = AbsentQueue
  /\ pc = [p \in Procs |-> "idle"]
  /\ ver = "Main"
  /\ rd = [p \in Readers |-> NoCall]
  /\ tk = [p \in Tickers |-> NoTick]
  /\ sent = [k \in Keys |-> 0]
  /\ claim = [k \in Keys |-> "absent"]
  /\ pf = [p \in Callers |-> NoSan]

\* one call of toNumOrNull
SAN_ToNum(x) ==
  /\ pc[TtlWriter] = "idle"
  /\ pc' = [pc EXCEPT ![TtlWriter] = "done"]
  /\ pf' = [pf EXCEPT ![TtlWriter] =
              [NoSan EXCEPT !.fn = "toNumOrNull", !.x = x, !.num = ToNumOrNull(x)]]
  /\ UNCHANGED <<lock, cache, queue, ver, rd, tk, sent, claim>>

\* one fetched record through sanitizeAgg_ and the classification of postFetch
SAN_Row(row) ==
  /\ pc[TtlWriter] = "idle"
  /\ pc' = [pc EXCEPT ![TtlWriter] = "done"]
  /\ pf' = [pf EXCEPT ![TtlWriter] =
              [NoSan EXCEPT !.fn = "sanitizeAgg_", !.row = row,
                            !.agg = SanitizeAggRow(row), !.entry = PostFetchEntry(row)]]
  /\ UNCHANGED <<lock, cache, queue, ver, rd, tk, sent, claim>>

NextSan ==
  \/ \E x \in JsValues : SAN_ToNum(x)
  \/ \E row \in Rows : SAN_Row(row)

SpecSan == InitSan /\ [][NextSan]_vars

\* a value that stands for no number: null, undefined, NaN, a boolean, the
\* empty or blank string, a string with a character that is no digit
NoNumber(x) ==
  \/ x.k \in {"null", "undefined", "nan", "boolean"}
  \/ /\ x.k = "string"
     /\ \/ Trim(x.s) = << >>
        \/ \E i \in DOMAIN Trim(x.s) : Trim(x.s)[i] \notin Digits

\* C31: toNumOrNull maps null, undefined, the empty string, blank strings and
\* values that are no number to null and never to 0, and maps the number 0 and
\* the string "0" to 0; a field of a sanitized record is 0 only if the upstream
\* field (or, for avg, the weightedAverage it is filled from) was a number.
C31_NoFalseZero ==
  \A p \in Callers :
    /\ pf[p].fn = "toNumOrNull"
       => /\ NoNumber(pf[p].x) => pf[p].num = JsNull
          /\ pf[p].x \in {JsNum(0), JsStr(<<"0">>)} => pf[p].num = JsNum(0)
    /\ pf[p].fn = "sanitizeAgg_"
       => \A k \in FUZZ_FIELDS :
            /\ (pf[p].agg.buy.f[k] = JsNum(0) /\ NoNumber(pf[p].row.buy.f[k]))
               => k = "avg" /\ ~NoNumber(pf[p].row.buy.f["weightedAverage"])
            /\ (pf[p].agg.sell.f[k] = JsNum(0) /\ NoNumber(pf[p].row.sell.f[k]))
               => k = "avg" /\ ~NoNumber(pf[p].row.sell.f["weightedAverage"])

\* a record with an empty-string field next to a number went through
\* sanitizeAgg_, and the field came out as null
C31_Witness ==
  \E p \in Callers :
    /\ pf[p].fn = "sanitizeAgg_"
    /\ pf[p].row.sell.obj
    /\ pf[p].row.sell.f["min"] = JsStr(<< >>)
    /\ pf[p].row.sell.f["avg"] = JsNum(5)
    /\ ~pf[p].agg.isNull
    /\ pf[p].agg.sell.f["min"] = JsNull


\* a side with at least one field that is a number
Usable(side) == side.obj /\ \E k \in FUZZ_FIELDS : ~NoNumber(side.f[k])

\* the avg of a sanitized side is the weightedAverage when the upstream avg is
\* no number and the weightedAverage is one
AvgFilled(side, out) ==
  (NoNumber(side.f["avg"]) /\ ~NoNumber(side.f["weightedAverage"]))
  => out.f["avg"] = ToNumOrNull(side.f["weightedAverage"])

C33_ConsolidationPreservesIds ==
  \A t \in Tickers :
    (ver = "V3" /\ tk[t] # NoTick)
    => /\ \A loc \in Locations :
            /\ ToSet(IdsOfLoc(tk[t].final, loc)) = ToSet(IdsOfLoc(tk[t].tasks, loc))
            /\ Len(IdsOfLoc(tk[t].final, loc)) = Cardinality(ToSet(IdsOfLoc(tk[t].final, loc)))
       /\ \A i \in DOMAIN tk[t].final : Len(tk[t].final[i].ids) <= MAX_ID_PER_CHUNK

\* a tick drained two tasks of one location that share an id and hold more
\* ids than one task may carry
C33_Witness ==
  \E t \in Tickers : \E loc \in Locations :
    /\ ver = "V3"
    /\ Len(tk[t].tasks) >= 2
    /\ Len(IdsOfLoc(tk[t].tasks, loc)) > Cardinality(ToSet(IdsOfLoc(tk[t].tasks, loc)))
    /\ Cardinality(ToSet(IdsOfLoc(tk[t].tasks, loc))) > MAX_ID_PER_CHUNK
    /\ Len(tk[t].final) = 2


\* ---------------------------------------------------------------------
\* withRetries (Main.js and V3)
\* ---------------------------------------------------------------------

\* what one call of fn() ends with: a result that is no 429/420/5xx response,
\* a muted response with status 429, 420 or 5xx, an exception whose message
\* matches the retry pattern, any other exception
FnOutcomes == {"ok", "muted5xx", "transientErr", "otherErr"}

\* the locals of a call of withRetries(fn, tries): the outcomes of the calls of
\* fn so far, and how withRetries ended
NewRetry(tries) == [tries |-> tries, hist |-> << >>, res |-> "none"]

InitWR ==
  /\ lock = NoProc
  /\ cache = [k \in Keys |-> "absent"]
  /\ queue = AbsentQueue
  /\ pc = [p \in Procs |-> "idle"]
  /\ ver \in {"Main", "V3"}
  /\ rd = [p \in Readers |-> NoCall]
  /\ tk = [p \in Tickers |-> NoTick]
  /\ sent = [k \in Keys |-> 0]
  /\ claim = [k \in Keys |-> "absent"]
  /\ pf \in [Callers -> { NewRetry(n) : n \in 1..RETRY_MAX }]

\* one turn of the loop: fn() ends with o. Main.js throws 'HTTP <code>' for a
\* muted 429/420/5xx response, V3 returns whatever fn returns
WR_Call(p, o) ==
  /\ pf[p].res = "none"
  /\ LET i == Len(pf[p].hist)
         thrown == o \in {"transientErr", "otherErr"} \/ (ver = "Main" /\ o = "muted5xx")
         retried == o # "otherErr" /\ i # pf[p].tries - 1
     IN /\ pf' = [pf EXCEPT ![p].hist = Append(pf[p].hist, o),
                            ![p].res = IF ~thrown THEN "returned"
                                       ELSE IF retried THEN "none" ELSE "threw"]
        /\ pc' = [pc EXCEPT ![p] = IF thrown /\ retried THEN "retrying" ELSE "done"]
  /\ UNCHANGED <<lock, cache, queue, ver, rd, tk, sent, claim>>

NextWR == \E p \in Callers : \E o \in FnOutcomes : WR_Call(p, o)

SpecWR == InitWR /\ [][NextWR]_vars

\* C34: withRetries calls fn at most `tries` times; every call before the last
\* one was a transient failure (a muted 429/420/5xx response included); it
\* returns only a successful result, rethrows an error that is not transient
\* at once, and rethrows the last error when the attempts are used up.
C34_WithRetries ==
  \A p \in Callers :
    LET h == pf[p].hist
        n == Len(h)
    IN /\ n <= pf[p].tries
       /\ \A j \in 1..(n - 1) : h[j] \in {"transientErr", "muted5xx"}
       /\ n > 0 =>
            /\ h[n] = "ok" => pf[p].res = "returned"
            /\ h[n] = "otherErr" => pf[p].res = "threw"
            /\ h[n] \in {"transientErr", "muted5xx"}
               => pf[p].res = (IF n = pf[p].tries THEN "threw" ELSE "none")


\* ---------------------------------------------------------------------
\* The queue pipelines started on a queue value that is not JSON
\* ---------------------------------------------------------------------

CorruptQueue == [st |-> "corrupt", tasks |-> << >>]

InitCorrupt ==
  /\ lock = NoProc
  /\ cache = [k \in Keys |-> "absent"]
  /\ queue = CorruptQueue
  /\ pc = [p \in Procs |-> "idle"]
  /\ ver \in {"V3", "Pulse"}
  /\ rd = [p \in Readers |-> NoCall]
  /\ tk = [p \in Tickers |-> NoTick]
  /\ sent = [k \in Keys |-> 0]
  /\ claim = [k \in Keys |-> "absent"]
  /\ pf = [p \in Callers |-> NoFetch]

\* the variants whose tick handles a queue value it cannot parse
NextCorrupt == ver \in {"V3", "Pulse"} /\ Next

SpecCorrupt == InitCorrupt /\ [][NextCorrupt]_vars

\* C35: a tick that reads a queue value it cannot parse removes the queue key,
\* requests nothing, writes nothing and ends without raising (V3 and Pulse);
\* an enqueue that then finds no queue value leaves exactly its own missing
\* ids queued (V3).
C35_CorruptionRecovery ==
  [][/\ \A t \in Tickers :
          (queue.st = "corrupt" /\ (V3_Drain(t) \/ P_TickRead(t)))
          => /\ queue' = AbsentQueue
             /\ pc'[t] = "done"
             /\ sent' = sent /\ cache' = cache /\ tk' = tk
     /\ \A p \in Readers :
          (queue.st = "absent" /\ V3_Enqueue(p))
          => /\ queue'.st = "json"
             /\ pc'[p] = "done"
             /\ \A loc \in Locations :
                  QueuedIds(queue'.tasks, loc)
                    = IF loc = rd[p].loc THEN ToSet(rd[p].missing) ELSE {}]_vars

\* after a tick removed a corrupt queue value, an enqueue has queued its ids
C35_Witness ==
  /\ ver = "V3"
  /\ \E t \in Tickers : pc[t] = "done" /\ tk[t] = NoTick
  /\ queue.st = "json"
  /\ \E p \in Readers : pc[p] = "done" /\ rd[p].missing # << >>
                        /\ QueuedIds(queue.tasks, rd[p].loc) = ToSet(rd[p].missing)


\* C36: postFetch writes a cache entry only for a key its caller claimed and
\* fetched: a caller that did not claim a key writes no entry for it, no
\* negative 'null' sentinel in particular.
C36_OnlyClaimerWrites ==
  [][\A p \in Callers :
       PF_Write(p)
       => \A k \in Keys :
            cache'[k] # cache[k]
            => k[1] = pf[p].loc /\ k[2] \in ToSet(pf[p].claimables)]_vars


\* C37: when a tick finishes, every id it took from the queue has a cache
\* entry (positive or negative) or is in the queue again.
C37_IdConservation ==
  [][\A t \in Tickers :
       (pc[t] # "done" /\ pc'[t] = "done")
       => \A i \in DOMAIN tk'[t].final :
            \A id \in ToSet(tk'[t].final[i].ids) :
              \/ cache'[<<LocOf(tk'[t].final[i]), id>>] # "absent"
              \/ id \in QueuedIds(queue'.tasks, LocOf(tk'[t].final[i]))]_vars


\* C38: in the Pulse variant, the ids that _queueMissingItems added after the
\* tick read the queue are still queued after the tick's locked write-back.
C38_WriteBackKeepsEnqueued ==
  [][\A t \in Tickers :
       P_Shift(t)
       => (QueuedKeys(queue.tasks) \ QueuedKeys(tk[t].tasks))
            \subseteq QueuedKeys(queue'.tasks)]_vars


\* ---------------------------------------------------------------------
\* The chain of self-rescheduling triggers (Old and Pulse), nothing enqueued
\* ---------------------------------------------------------------------
\* In this specification pf is the project's trigger registry: registered
\* counts the fuzzworkCacheRefresh triggers ScriptApp.getProjectTriggers
\* returns (a one-time trigger stays registered after it fired, until it is
\* deleted), armed counts those that have not fired yet. Each tick is one
\* execution of fuzzworkCacheRefresh.

InitChain ==
  /\ lock = NoProc
  /\ cache = [k \in Keys |-> "absent"]
  /\ queue \in {AbsentQueue}
       \cup { JsonQueue(ChunkTasks(l, ids)) : l \in Locations, ids \in Inputs }
       \cup { JsonQueue(ChunkTasks(lm[1], ids) \o ChunkTasks(lm[2], jds)) :
                lm \in { x \in Locations \X Locations : x[1] # x[2] },
                ids \in Inputs, jds \in Inputs }
  /\ pc = [p \in Procs |-> "idle"]
  /\ ver \in {"Old", "Pulse"}
  /\ rd = [p \in Readers |-> NoCall]
  /\ tk = [p \in Tickers |-> NoTick]
  /\ sent = [k \in Keys |-> 0]
  /\ claim = [k \in Keys |-> "absent"]
  /\ pf = [registered |-> 1, armed |-> 1]

\* an armed trigger fires and fuzzworkCacheRefresh runs to its end; o is what
\* the fetch of the tick's task ends with ("throws": withRetries rethrows)
CH_Tick(o) ==
  /\ pf.armed > 0
  /\ IF queue.st = "absent" \/ (ver = "Pulse" /\ queue.tasks = << >>)
     THEN \* queue empty: _deleteExistingTriggers and return
          /\ queue' = AbsentQueue
          /\ pf' = [registered |-> 0, armed |-> 0]
          /\ UNCHANGED cache
     ELSE LET task == Head(queue.tasks)
              rest == Tail(queue.tasks)
          IN IF ver = "Pulse"
             THEN /\ queue' = JsonQueue(rest)
                  /\ IF o = "throws"
                     THEN \* the exception ends the execution before the pulse section
                          /\ pf' = [pf EXCEPT !.armed = pf.armed - 1]
                          /\ UNCHANGED cache
                     ELSE /\ cache' = FetchWritePulse(cache, task, o)
                          /\ pf' = IF RearmPulse(rest)
                                   THEN [pf EXCEPT !.registered = pf.registered + 1]
                                   ELSE [registered |-> 0, armed |-> 0]
             ELSE \* Old: _performFetchAndCache catches what withRetries throws
                  /\ cache' = FetchWriteOld(cache, LocOf(task),
                                            IF o = "ok" THEN Received(task.ids) ELSE {})
                  /\ queue' = IF rest = << >> THEN AbsentQueue ELSE JsonQueue(rest)
                  /\ pf' = IF RearmOld(rest)
                           THEN [pf EXCEPT !.registered = pf.registered + 1]
                           ELSE [pf EXCEPT !.armed = pf.armed - 1]
  /\ UNCHANGED <<lock, pc, ver, rd, tk, sent, claim>>

NextChain == \E o \in Responses \cup {"throws"} : CH_Tick(o)

\* an armed time trigger fires
SpecChainFair == InitChain /\ [][NextChain]_vars /\ WF_vars(NextChain)

C40_RequeueAppends ==
  [][\A t \in Tickers :
       (V3_Requeue(t) /\ queue.st # "corrupt")
       => /\ queue'.st = "json"
          /\ Len(queue'.tasks) = Len(queue.tasks) + Len(tk[t].final)
          /\ \A i \in DOMAIN queue.tasks : queue'.tasks[i] = queue.tasks[i]
          /\ \A i \in DOMAIN tk[t].final :
               queue'.tasks[Len(queue.tasks) + i] = tk[t].final[i]]_vars

\* a tick whose fetch failed has re-queued its tasks behind a task that was
\* enqueued while the fetch was in flight
C40_Witness ==
  \E t \in Tickers :
    /\ ver = "V3"
    /\ pc[t] = "done"
    /\ tk[t].final # << >>
    /\ tk[t].i = 1
    /\ Len(queue.tasks) > Len(tk[t].final)
    /\ SubSeq(queue.tasks, Len(queue.tasks) - Len(tk[t].final) + 1, Len(queue.tasks))
         = tk[t].final

====
